---- MODULE Spec2Model ----
(***************************************************************************)
(* The chat-with-ai edge function (supabase/functions/chat-with-ai/        *)
(* index.ts) as a state machine: one handler invocation ("turn") walks     *)
(* through its await points, the environment (identity provider, storage   *)
(* engine, completion provider) answering each external call.  The Chat    *)
(* and Profile pages (src/pages) and the tables' write boundary follow.    *)
(***************************************************************************)
EXTENDS Integers, Sequences, FiniteSets, TLC

(***************************************************************************)
(* JavaScript values, tagged by kind, with the operators the handler uses  *)
(* on them.                                                                *)
(***************************************************************************)
Undefined == [k |-> "undefined"]
Null == [k |-> "null"]
Str(s) == [k |-> "str", v |-> s]
Num(n) == [k |-> "num", v |-> n]
Obj(r) == [k |-> "obj", f |-> r]
Arr(a) == [k |-> "arr", a |-> a]
NaN == [k |-> "nan"]

\* No HTTP response has been returned yet.
NoResponse == [k |-> "none"]

\* ToBoolean: what `x || d`, `x ? a : b` and `if (x)` test.
Truthy(x) ==
  CASE x.k = "undefined" -> FALSE
    [] x.k = "null" -> FALSE
    [] x.k = "str" -> x.v # ""
    [] x.k = "num" -> x.v # 0
    [] x.k = "nan" -> FALSE
    [] OTHER -> TRUE

\* x || d
OrElse(x, d) == IF Truthy(x) THEN x ELSE d

\* `${x}` in a template literal.
Render(x) ==
  CASE x.k = "str" -> x.v
    [] x.k = "num" -> ToString(x.v)
    [] x.k = "null" -> "null"
    [] x.k = "undefined" -> "undefined"
    [] x.k = "nan" -> "NaN"
    [] OTHER -> "[object Object]"

\* Reading a property of undefined or null throws a TypeError.
Nullish(x) == x.k \in {"undefined", "null"}

\* o.name for a non-nullish o: a missing property reads as undefined.
Get(o, name) ==
  IF o.k = "obj" /\ name \in DOMAIN o.f THEN o.f[name] ELSE Undefined

\* o?.name
OptGet(o, name) == IF Nullish(o) THEN Undefined ELSE Get(o, name)

\* a[i] (0-based) for a non-nullish a.
Index(a, i) ==
  IF a.k = "arr" /\ i + 1 \in DOMAIN a.a THEN a.a[i + 1] ELSE Undefined

\* JSON.stringify of an object literal: properties whose value is undefined
\* are left out.
JSONStringify(r) ==
  Obj([n \in {m \in DOMAIN r : r[m].k # "undefined"} |-> r[n]])

(***************************************************************************)
(* Bounds of the model.                                                    *)
(***************************************************************************)
Users == {"u1", "u2"}
Turns == {"t1"}

(***************************************************************************)
(* The storage engine: rows of the four tables.                            *)
(***************************************************************************)
NoRow == [k |-> "norow"]

\* A row as the table of an identity-keyed relation holds it: with user_id.
WithUser(id, row) ==
  [n \in DOMAIN row \cup {"user_id"} |->
     IF n = "user_id" THEN Str(id) ELSE row[n]]

\* The table holding the one row of an identity, or nothing.
RowsOf(id, row) == IF row = NoRow THEN {} ELSE {WithUser(id, row)}

\* WHERE user_id = id
RowsFor(table, id) == {r \in table : r.user_id = Str(id)}

ProfileRows ==
  { [first_name |-> Str("Ana"), last_name |-> Str("Lima"), age |-> Num(30),
     email |-> Str("ana@example.com")],
    [first_name |-> Null, last_name |-> Null, age |-> Null,
     email |-> Str("ana@example.com")] }

CreditRows ==
  { [credit_score |-> Num(700), total_debt |-> Num(1500),
     late_payments |-> Null, credit_utilization |-> Num(30)] }

GoalRows ==
  { [title |-> Str("Buy a house"), description |-> Null,
     target_amount |-> Num(400000), target_date |-> Null,
     priority |-> Str("high"), status |-> Str("active")] }

\* The longest goal list an identity holds in the model.
MaxGoals == 2

GoalLists == UNION {[1..n -> GoalRows] : n \in 0..MaxGoals}

\* A row of chat_history: timestamp defaults to now(), the insertion order.
ChatRow(user_id, message, is_user_message, timestamp) ==
  [user_id |-> user_id, message |-> message,
   is_user_message |-> is_user_message, timestamp |-> timestamp]

\* The history the identity u1 already has when the turn starts.
InitHistory == <<ChatRow("u1", "earlier question", TRUE, 1)>>

VARIABLES
  env,              \* Deno.env: is OPEN_AI_API_KEY set
  auth_users,       \* table auth.users: the ids of the identities signed up
  profiles,         \* table profiles: a set of rows, each with its user_id
  credit_info,      \* table credit_info: a set of rows, each with its user_id
  financial_goals,  \* table financial_goals: user_id -> sequence of rows
  chat_history,     \* table chat_history, in timestamp order
  turn,             \* per invocation: position and local constants
  calls,            \* per invocation: the external calls issued, in order
  log,              \* per invocation: console output, in order
  page              \* the browser session: state of the Chat and Profile pages

vars ==
  <<env, auth_users, profiles, credit_info, financial_goals, chat_history,
    turn, calls, log, page>>

dbvars == <<env, auth_users, profiles, credit_info, financial_goals>>

(***************************************************************************)
(* What the environment can hand to the handler.                           *)
(***************************************************************************)
\* A body that is not JSON text.
Malformed == [k |-> "malformed"]

\* The body of the turn request: JSON with a message, JSON without one, the
\* JSON text null, or text that does not parse.
Bodies ==
  { Obj([message |-> Str("How much should I save monthly?")]),
    Obj([text |-> Str("hello")]),
    Null,
    Malformed }

\* The Authorization header resolves to an identity, or to none.
Tokens == Users \cup {"bad"}

Requests ==
  {[method |-> "OPTIONS", token |-> "bad", body |-> Malformed]}
    \cup [method : {"POST"}, token : Tokens, body : Bodies]

\* What supabase.auth.getUser() resolves to for a token.
AuthResults(token) ==
  { [user |-> Null, error |-> Obj([name |-> Str("AuthError")])] }
    \cup (IF token \in Users
            THEN {[user |-> Obj([id |-> Str(token)]), error |-> Null]}
            ELSE {[user |-> Null, error |-> Null]})

AllAuthResults == UNION {AuthResults(token) : token \in Tokens}

\* Whether the storage engine serves a call or fails it.
DbOutcomes == {"ok", "fail"}

StorageFailure == Obj([code |-> Str("08006")])
NotFound == Obj([code |-> Str("PGRST116")])
NotNullViolation == Obj([code |-> Str("23502")])

\* The completion provider's payloads with success status.
Replies == {"Save 500 a month.", ""}

ReplyPayload(text) ==
  Obj([choices |->
         Arr(<<Obj([message |->
                      Obj([role |-> Str("assistant"), content |-> Str(text)])])>>)])

NoChoices == Obj([id |-> Str("chatcmpl-1")])
EmptyChoices == Obj([choices |-> Arr(<<>>)])
NoMessage == Obj([choices |-> Arr(<<Obj([index |-> Num(0)])>>)])
NoContent ==
  Obj([choices |-> Arr(<<Obj([message |-> Obj([role |-> Str("assistant")])])>>)])
NullContent ==
  Obj([choices |->
         Arr(<<Obj([message |->
                      Obj([role |-> Str("assistant"), content |-> Null])])>>)])

LacksReply == {NoChoices, EmptyChoices, NoMessage, NoContent, NullContent}

ErrorStatuses == {429, 500}
ErrorBodies == {"rate limit reached for org-1", "upstream failure in shard 7"}

\* fetch() resolves to a response, or rejects (the network failed).
ProviderResponses ==
  {[k |-> "rejected"]}
    \cup [k : {"response"}, ok : {FALSE}, status : ErrorStatuses,
          text : ErrorBodies, json : {Malformed}]
    \cup [k : {"response"}, ok : {TRUE}, status : {200}, text : {"body"},
          json : {ReplyPayload(r) : r \in Replies} \cup LacksReply \cup {Malformed}]

(***************************************************************************)
(* Init: the tables hold what earlier requests left; no turn has started.  *)
(***************************************************************************)
NewTurn ==
  [pc |-> "idle", req |-> Undefined, openAIApiKey |-> Undefined,
   user |-> Undefined, userError |-> Undefined,
   profile |-> Undefined, profileError |-> Undefined,
   creditInfo |-> Undefined, creditError |-> Undefined,
   goals |-> Undefined, goalsError |-> Undefined,
   message |-> Undefined, systemPrompt |-> <<>>,
   response |-> Undefined, aiResponse |-> Undefined,
   saveUserError |-> Undefined, saveAIError |-> Undefined,
   failedAt |-> "", out |-> NoResponse]

\* The activations of the async sendMessage that can be pending at once; an
\* activation and the invocation it issues carry the same id.
Sends == {"t1", "t2"}

\* The React state of the signed-in browser session when the pages mount:
\* Chat.tsx (messages, loading, loadingHistory, and where each unfinished
\* sendMessage stands with its userMessage) and Profile.tsx (profile,
\* creditInfo, goals, and its own loading as loadingProfile).
NewPage ==
  [user |-> "u1",
   messages |-> <<>>, loading |-> FALSE, loadingHistory |-> TRUE,
   pc |-> [s \in Sends |-> "idle"], userMessage |-> [s \in Sends |-> ""],
   profile |-> Null, creditInfo |-> Null, goals |-> <<>>,
   loadingProfile |-> TRUE]

Init ==
  /\ env \in [OPEN_AI_API_KEY : {Undefined, Str("sk-test")}]
  /\ auth_users = Users
  /\ \E p \in ProfileRows \cup {NoRow} : profiles = RowsOf("u1", p)
  /\ \E c \in CreditRows \cup {NoRow} : credit_info = RowsOf("u1", c)
  /\ \E g \in GoalLists :
       financial_goals = [u \in Users |-> IF u = "u1" THEN g ELSE <<>>]
  /\ chat_history = InitHistory
  /\ turn = [t \in Turns |-> NewTurn]
  /\ calls = [t \in Turns |-> <<>>]
  /\ log = [t \in Turns |-> <<>>]
  /\ page = NewPage

(***************************************************************************)
(* Helpers of the handler.                                                 *)
(***************************************************************************)
LogError(text, data) == [level |-> "error", text |-> text, data |-> data]
LogInfo(text, data) == [level |-> "log", text |-> text, data |-> data]

Error(message) == Obj([name |-> Str("Error"), message |-> Str(message)])
TypeError(message) == Obj([name |-> Str("TypeError"), message |-> Str(message)])
\* The wording of a json() SyntaxError is the runtime's; one text stands for it.
SyntaxError(message) ==
  Obj([name |-> Str("SyntaxError"), message |-> Str(message)])

CannotRead(of, name) ==
  TypeError("Cannot read properties of " \o Render(of)
              \o " (reading '" \o name \o "')")

\* new Response(null, { headers: corsHeaders })
PreflightResponse == [status |-> 200, body |-> Null]

\* Variant: an authentication failure is answered 401.
CatchResponseUnauthorized(error) ==
  [status |-> IF Get(error, "message") = Str("User not authenticated")
                THEN 401 ELSE 500,
   body |-> JSONStringify([error |-> Get(error, "message")])]

\* Variant: a provider status failure is answered 502.
CatchResponseBadGateway(error) ==
  [status |-> IF Get(error, "message")
                   \in {Str("OpenAI API error: " \o ToString(st)) :
                          st \in ErrorStatuses}
                THEN 502 ELSE 500,
   body |-> JSONStringify([error |-> Get(error, "message")])]

\* The catch block's response for a thrown error.
CatchResponse(error) ==
  [status |-> 500, body |-> JSONStringify([error |-> Get(error, "message")])]

\* The response of a turn that ran to its end.
SuccessResponse(aiResponse) ==
  [status |-> 200, body |-> JSONStringify([response |-> aiResponse])]

\* Variant: the provider's error body is put into the thrown message.
ProviderStatusErrorVerbose(status, errorData) ==
  Error("OpenAI API error: " \o ToString(status) \o " " \o errorData)

\* The error thrown for a provider response with a non-success status.
ProviderStatusError(status, errorData) ==
  Error("OpenAI API error: " \o ToString(status))

\* The catch block: an error thrown at turn t's position, its locals being
\* `next`, ends the turn, after the lines `before` were logged on the way.
Thrown(t, next, error, before) ==
  /\ turn' = [turn EXCEPT ![t] =
                [next EXCEPT !.pc = "Done", !.failedAt = turn[t].pc,
                             !.out = CatchResponse(error)]]
  /\ log' = [log EXCEPT ![t] =
               @ \o before
                 \o <<LogError("Error in chat-with-ai function:", error)>>]

\* The turn moves on with its locals changed to `next`, logging `lines`.
Goes(t, next, lines) ==
  /\ turn' = [turn EXCEPT ![t] = next]
  /\ log' = [log EXCEPT ![t] = @ \o lines]

\* The external call `c` is issued by turn t.
Issues(t, c) == calls' = [calls EXCEPT ![t] = Append(@, c)]

(***************************************************************************)
(* The handler, one action per step.                                       *)
(***************************************************************************)
\* serve(async (req) => ...): a request arrives.
Receive(t, r) ==
  /\ turn[t].pc = "idle"
  /\ Goes(t, [turn[t] EXCEPT !.pc = "Start", !.req = r], <<>>)
  /\ UNCHANGED <<dbvars, page, chat_history, calls>>

\* The CORS preflight is answered at once.
Preflight(t) ==
  /\ turn[t].pc = "Start"
  /\ turn[t].req.method = "OPTIONS"
  /\ Goes(t, [turn[t] EXCEPT !.pc = "Done", !.out = PreflightResponse], <<>>)
  /\ UNCHANGED <<dbvars, page, chat_history, calls>>

\* The API key is looked up; the storage client is built.
Configure(t) ==
  /\ turn[t].pc = "Start"
  /\ turn[t].req.method # "OPTIONS"
  /\ IF ~Truthy(env.OPEN_AI_API_KEY)
       THEN Thrown(t, turn[t], Error("OPEN_AI_API_KEY is not set"), <<>>)
       ELSE Goes(t, [turn[t] EXCEPT !.pc = "Authenticating",
                                    !.openAIApiKey = env.OPEN_AI_API_KEY],
                 <<>>)
  /\ UNCHANGED <<dbvars, page, chat_history, calls>>

\* Variant: only the error is tested, not the missing user.
GetUserErrorOnly(t, res) ==
  /\ turn[t].pc = "Authenticating"
  /\ res \in AuthResults(turn[t].req.token)
  /\ Issues(t, [api |-> "auth.getUser", token |-> turn[t].req.token])
  /\ LET next == [turn[t] EXCEPT !.user = res.user, !.userError = res.error]
     IN IF Truthy(res.error)
          THEN Thrown(t, next, Error("User not authenticated"),
                      <<LogError("User error:", res.error)>>)
          ELSE Goes(t, [next EXCEPT !.pc = "ReadingProfile"],
                    <<LogInfo("User authenticated:", OptGet(res.user, "id"))>>)
  /\ UNCHANGED <<dbvars, page, chat_history>>

\* supabase.auth.getUser()
GetUser(t, res) ==
  /\ turn[t].pc = "Authenticating"
  /\ res \in AuthResults(turn[t].req.token)
  /\ Issues(t, [api |-> "auth.getUser", token |-> turn[t].req.token])
  /\ LET next == [turn[t] EXCEPT !.user = res.user, !.userError = res.error]
     IN IF Truthy(res.error) \/ ~Truthy(res.user)
          THEN Thrown(t, next, Error("User not authenticated"),
                      <<LogError("User error:", res.error)>>)
          ELSE Goes(t, [next EXCEPT !.pc = "ReadingProfile"],
                    <<LogInfo("User authenticated:", Get(res.user, "id"))>>)
  /\ UNCHANGED <<dbvars, page, chat_history>>

\* .from(table).select('*').eq('user_id', id).single(): exactly one row, or
\* an error (PGRST116 for no row).
SelectSingle(table, id, db) ==
  IF db = "fail" THEN [data |-> Null, error |-> StorageFailure]
  ELSE IF Cardinality(RowsFor(table, id)) # 1
    THEN [data |-> Null, error |-> NotFound]
  ELSE [data |-> Obj(CHOOSE r \in RowsFor(table, id) : TRUE), error |-> Null]

\* .from(table).select('*').eq('user_id', id): the rows, or an error.
SelectAll(table, id, db) ==
  IF db = "fail" THEN [data |-> Null, error |-> StorageFailure]
  ELSE [data |-> Arr([i \in 1..Len(table[id]) |-> Obj(table[id][i])]),
        error |-> Null]

\* Variant: a failed profile read is thrown.
ReadProfileStrict(t, db) ==
  /\ turn[t].pc = "ReadingProfile"
  /\ Issues(t, [api |-> "select", table |-> "profiles",
                user_id |-> Get(turn[t].user, "id").v])
  /\ LET res == SelectSingle(profiles, Get(turn[t].user, "id").v, db)
         next == [turn[t] EXCEPT !.profile = res.data,
                                 !.profileError = res.error]
     IN IF Truthy(res.error)
          THEN Thrown(t, next, res.error, <<>>)
          ELSE Goes(t, [next EXCEPT !.pc = "ReadingCredit"], <<>>)
  /\ UNCHANGED <<dbvars, page, chat_history>>

\* Variant: a failed goal read is thrown.
ReadGoalsStrict(t, db) ==
  /\ turn[t].pc = "ReadingGoals"
  /\ Issues(t, [api |-> "select", table |-> "financial_goals",
                user_id |-> Get(turn[t].user, "id").v])
  /\ LET res == SelectAll(financial_goals, Get(turn[t].user, "id").v, db)
         next == [turn[t] EXCEPT !.goals = res.data, !.goalsError = res.error]
     IN IF Truthy(res.error)
          THEN Thrown(t, next, res.error, <<>>)
          ELSE Goes(t, [next EXCEPT !.pc = "ParsingBody"], <<>>)
  /\ UNCHANGED <<dbvars, page, chat_history>>

\* user.id, for a user that is set.
UserId(t) == Get(turn[t].user, "id").v

\* Reading user.id of a missing user throws before the query is built.
ReadProfile(t, db) ==
  /\ turn[t].pc = "ReadingProfile"
  /\ IF Nullish(turn[t].user)
       THEN /\ Thrown(t, turn[t], CannotRead(turn[t].user, "id"), <<>>)
            /\ UNCHANGED calls
       ELSE /\ Issues(t, [api |-> "select", table |-> "profiles",
                          user_id |-> UserId(t)])
            /\ LET res == SelectSingle(profiles, UserId(t), db)
               IN Goes(t, [turn[t] EXCEPT !.pc = "ReadingCredit",
                                          !.profile = res.data,
                                          !.profileError = res.error],
                       IF Truthy(res.error)
                         THEN <<LogError("Profile error:", res.error)>>
                         ELSE <<>>)
  /\ UNCHANGED <<dbvars, page, chat_history>>

ReadCredit(t, db) ==
  /\ turn[t].pc = "ReadingCredit"
  /\ Issues(t, [api |-> "select", table |-> "credit_info", user_id |-> UserId(t)])
  /\ LET res == SelectSingle(credit_info, UserId(t), db)
     IN Goes(t, [turn[t] EXCEPT !.pc = "ReadingGoals", !.creditInfo = res.data,
                                !.creditError = res.error],
             IF Truthy(res.error) /\ Get(res.error, "code") # Str("PGRST116")
               THEN <<LogError("Credit info error:", res.error)>> ELSE <<>>)
  /\ UNCHANGED <<dbvars, page, chat_history>>

ReadGoals(t, db) ==
  /\ turn[t].pc = "ReadingGoals"
  /\ Issues(t, [api |-> "select", table |-> "financial_goals",
                user_id |-> UserId(t)])
  /\ LET res == SelectAll(financial_goals, UserId(t), db)
     IN Goes(t, [turn[t] EXCEPT !.pc = "ParsingBody", !.goals = res.data,
                                !.goalsError = res.error],
             IF Truthy(res.error)
               THEN <<LogError("Goals error:", res.error)>> ELSE <<>>)
  /\ UNCHANGED <<dbvars, page, chat_history>>

\* const { message } = await req.json()
ParseBody(t) ==
  /\ turn[t].pc = "ParsingBody"
  /\ LET body == turn[t].req.body
     IN IF body = Malformed
          THEN Thrown(t, turn[t], SyntaxError("Unexpected token in JSON"), <<>>)
          ELSE IF Nullish(body)
            THEN Thrown(t, turn[t], CannotRead(body, "message"), <<>>)
            ELSE Goes(t, [turn[t] EXCEPT !.pc = "Synthesizing",
                                         !.message = Get(body, "message")],
                      <<LogInfo("User message:", Get(body, "message"))>>)
  /\ UNCHANGED <<dbvars, page, chat_history, calls>>

(***************************************************************************)
(* Context synthesis: the system prompt, as its lines.                     *)
(***************************************************************************)
NotProvided == Str("Not provided")

Preamble ==
  << "You are a helpful financial coach AI assistant. You provide personalized financial advice based on the user's information.",
     "",
     "User Information:" >>

\* Variant: the identity block is left out when there is no profile.
IdentityBlockIfPresent(profile) ==
  IF Nullish(profile) THEN <<>>
  ELSE
    << "- Name: " \o Render(OrElse(Get(profile, "first_name"), Str("Unknown")))
         \o " " \o Render(OrElse(Get(profile, "last_name"), Str(""))),
       "- Age: " \o Render(OrElse(Get(profile, "age"), NotProvided)),
       "- Email: " \o Render(OrElse(Get(profile, "email"), NotProvided)) >>

IdentityBlock(profile) ==
  << "- Name: " \o Render(OrElse(OptGet(profile, "first_name"), Str("Unknown")))
       \o " " \o Render(OrElse(OptGet(profile, "last_name"), Str(""))),
     "- Age: " \o Render(OrElse(OptGet(profile, "age"), NotProvided)),
     "- Email: " \o Render(OrElse(OptGet(profile, "email"), NotProvided)) >>

\* Variant: the credit block is left out unless every field is known.
CreditBlockComplete(creditInfo) ==
  IF ~Truthy(creditInfo)
     \/ \E n \in {"credit_score", "total_debt", "late_payments",
                  "credit_utilization"} : Nullish(Get(creditInfo, n))
    THEN <<>>
  ELSE
    << "",
       "Credit Information:",
       "- Credit Score: " \o Render(Get(creditInfo, "credit_score")),
       "- Total Debt: $" \o Render(Get(creditInfo, "total_debt")),
       "- Late Payments: " \o Render(Get(creditInfo, "late_payments")),
       "- Credit Utilization: "
         \o Render(Get(creditInfo, "credit_utilization")) \o "%" >>

CreditBlock(creditInfo) ==
  IF ~Truthy(creditInfo) THEN <<>>
  ELSE
    << "",
       "Credit Information:",
       "- Credit Score: "
         \o Render(OrElse(Get(creditInfo, "credit_score"), NotProvided)),
       "- Total Debt: $"
         \o Render(OrElse(Get(creditInfo, "total_debt"), NotProvided)),
       "- Late Payments: "
         \o Render(OrElse(Get(creditInfo, "late_payments"), Num(0))),
       "- Credit Utilization: "
         \o Render(OrElse(Get(creditInfo, "credit_utilization"), NotProvided))
         \o "%" >>

\* One entry of goals.forEach((goal, index) => ...), index 0-based.
GoalEntry(goal, index) ==
  << ToString(index + 1) \o ". " \o Render(Get(goal, "title"))
       \o (IF Truthy(Get(goal, "target_amount"))
             THEN " (Target: $" \o Render(Get(goal, "target_amount")) \o ")"
             ELSE "")
       \o (IF Truthy(Get(goal, "target_date"))
             THEN " (Due: " \o Render(Get(goal, "target_date")) \o ")"
             ELSE ""),
     "   Status: " \o Render(OrElse(Get(goal, "status"), Str("active"))),
     "   Priority: " \o Render(OrElse(Get(goal, "priority"), Str("medium"))) >>
    \o (IF Truthy(Get(goal, "description"))
          THEN <<"   Description: " \o Render(Get(goal, "description"))>>
          ELSE <<>>)

RECURSIVE GoalEntries(_, _)
GoalEntries(list, index) ==
  IF index >= Len(list) THEN <<>>
  ELSE GoalEntry(list[index + 1], index) \o GoalEntries(list, index + 1)

GoalBlock(goals) ==
  IF Truthy(goals) /\ Len(goals.a) > 0
    THEN <<"", "Financial Goals:">> \o GoalEntries(goals.a, 0)
    ELSE <<>>

Closing ==
  << "",
     "Please provide helpful, personalized financial advice based on this information. Be encouraging, practical, and specific in your recommendations. If you don't have enough information about something, ask clarifying questions." >>

SystemPrompt(profile, creditInfo, goals) ==
  Preamble \o IdentityBlock(profile) \o CreditBlock(creditInfo)
    \o GoalBlock(goals) \o Closing

Synthesize(t) ==
  /\ turn[t].pc = "Synthesizing"
  /\ Goes(t, [turn[t] EXCEPT
                !.pc = "Invoking",
                !.systemPrompt =
                  SystemPrompt(turn[t].profile, turn[t].creditInfo, turn[t].goals)],
          <<LogInfo("System prompt created", Undefined)>>)
  /\ UNCHANGED <<dbvars, page, chat_history, calls>>

(***************************************************************************)
(* The completion provider call.                                           *)
(***************************************************************************)

\* Variant: the stored conversation is replayed between the two messages.
ProviderRequestWithHistory(openAIApiKey, systemPrompt, message) ==
  [api |-> "fetch",
   url |-> "https://api.openai.com/v1/chat/completions",
   method |-> "POST",
   authorization |-> "Bearer " \o Render(openAIApiKey),
   body |-> [model |-> "gpt-4o-mini",
             messages |->
               << JSONStringify([role |-> Str("system"),
                                 content |-> Arr(systemPrompt)]) >>
                 \o [i \in 1..Len(chat_history) |->
                       JSONStringify(
                         [role |-> Str(IF chat_history[i].is_user_message
                                         THEN "user" ELSE "assistant"),
                          content |-> Str(chat_history[i].message)])]
                 \o << JSONStringify([role |-> Str("user"),
                                      content |-> message]) >>,
             temperature |-> "0.7",
             max_tokens |-> 1000]]

\* The request fetch() sends: JSON.stringify drops an undefined content.
ProviderRequest(openAIApiKey, systemPrompt, message) ==
  [api |-> "fetch",
   url |-> "https://api.openai.com/v1/chat/completions",
   method |-> "POST",
   authorization |-> "Bearer " \o Render(openAIApiKey),
   body |-> [model |-> "gpt-4o-mini",
             messages |-> << JSONStringify([role |-> Str("system"),
                                            content |-> Arr(systemPrompt)]),
                             JSONStringify([role |-> Str("user"),
                                            content |-> message]) >>,
             temperature |-> "0.7",
             max_tokens |-> 1000]]

Fetch(t, resp) ==
  /\ turn[t].pc = "Invoking"
  /\ Issues(t, ProviderRequest(turn[t].openAIApiKey, turn[t].systemPrompt,
                               turn[t].message))
  /\ IF resp.k = "rejected"
       THEN Thrown(t, turn[t], TypeError("error sending request"), <<>>)
       ELSE Goes(t, [turn[t] EXCEPT !.pc = "CheckingStatus", !.response = resp],
                 <<>>)
  /\ UNCHANGED <<dbvars, page, chat_history>>

\* Variant: a non-success status is logged and answered with a stock reply.
CheckStatusSwallow(t) ==
  /\ turn[t].pc = "CheckingStatus"
  /\ LET response == turn[t].response
     IN IF ~response.ok
          THEN Goes(t, [turn[t] EXCEPT !.pc = "RecordingUser",
                                       !.aiResponse = Str("Please try again.")],
                    <<LogError("OpenAI API error:", Str(response.text))>>)
          ELSE Goes(t, [turn[t] EXCEPT !.pc = "Extracting"], <<>>)
  /\ UNCHANGED <<dbvars, page, chat_history, calls>>
\* Variant: a non-success status is retried once before the turn fails.
CheckStatusRetry(t) ==
  /\ turn[t].pc = "CheckingStatus"
  /\ LET response == turn[t].response
     IN IF ~response.ok
          THEN IF Len(SelectSeq(calls[t], LAMBDA c : c.api = "fetch")) < 2
                 THEN Goes(t, [turn[t] EXCEPT !.pc = "Invoking"],
                           <<LogError("OpenAI API error:", Str(response.text))>>)
                 ELSE Thrown(t, turn[t],
                             ProviderStatusError(response.status, response.text),
                             <<LogError("OpenAI API error:",
                                        Str(response.text))>>)
          ELSE Goes(t, [turn[t] EXCEPT !.pc = "Extracting"], <<>>)
  /\ UNCHANGED <<dbvars, page, chat_history, calls>>

\* if (!response.ok) { ... throw ... }
CheckStatus(t) ==
  /\ turn[t].pc = "CheckingStatus"
  /\ LET response == turn[t].response
     IN IF ~response.ok
          THEN Thrown(t, turn[t],
                      ProviderStatusError(response.status, response.text),
                      <<LogError("OpenAI API error:", Str(response.text))>>)
          ELSE Goes(t, [turn[t] EXCEPT !.pc = "Extracting"], <<>>)
  /\ UNCHANGED <<dbvars, page, chat_history, calls>>

\* const data = await response.json();
\* const aiResponse = data.choices[0].message.content;
\* The error of the first read that throws, or the reply read.
ReadReply(json) ==
  IF json = Malformed
    THEN [threw |-> TRUE, error |-> SyntaxError("Unexpected token in JSON")]
  ELSE IF Nullish(json)
    THEN [threw |-> TRUE, error |-> CannotRead(json, "choices")]
  ELSE IF Nullish(Get(json, "choices"))
    THEN [threw |-> TRUE, error |-> CannotRead(Get(json, "choices"), "0")]
  ELSE IF Nullish(Index(Get(json, "choices"), 0))
    THEN [threw |-> TRUE,
          error |-> CannotRead(Index(Get(json, "choices"), 0), "message")]
  ELSE IF Nullish(Get(Index(Get(json, "choices"), 0), "message"))
    THEN [threw |-> TRUE,
          error |-> CannotRead(Get(Index(Get(json, "choices"), 0), "message"),
                               "content")]
  ELSE [threw |-> FALSE,
        value |-> Get(Get(Index(Get(json, "choices"), 0), "message"), "content")]

ExtractReply(t) ==
  /\ turn[t].pc = "Extracting"
  /\ LET read == ReadReply(turn[t].response.json)
     IN IF read.threw
          THEN Thrown(t, turn[t], read.error, <<>>)
          ELSE Goes(t, [turn[t] EXCEPT !.pc = "RecordingUser",
                                       !.aiResponse = read.value],
                    <<LogInfo("AI response generated", Undefined)>>)
  /\ UNCHANGED <<dbvars, page, chat_history, calls>>

(***************************************************************************)
(* Recording and responding.                                               *)
(***************************************************************************)
RlsViolation == Obj([code |-> Str("42501")])

\* .from('chat_history').insert(row) by the identity uid: the table after
\* the call and the error returned. message is TEXT NOT NULL; the insert
\* policy checks auth.uid() = user_id.
InsertChatHistory(history, uid, row, db) ==
  IF db = "fail" THEN [rows |-> history, error |-> StorageFailure]
  ELSE IF row.user_id # Str(uid) THEN [rows |-> history, error |-> RlsViolation]
  ELSE IF row.message.k # "str"
    THEN [rows |-> history, error |-> NotNullViolation]
  ELSE [rows |-> Append(history,
                        ChatRow(row.user_id.v, row.message.v,
                                row.is_user_message, Len(history) + 1)),
        error |-> Null]

UserMessageRow(user, message) ==
  [user_id |-> Get(user, "id"), message |-> message, is_user_message |-> TRUE]

\* Variant: the reply is stored with the user-authored flag.
AIMessageRowAsUser(user, aiResponse) ==
  [user_id |-> Get(user, "id"), message |-> aiResponse,
   is_user_message |-> TRUE]

AIMessageRow(user, aiResponse) ==
  [user_id |-> Get(user, "id"), message |-> aiResponse,
   is_user_message |-> FALSE]
\* Variant: the reply is recorded only when the user message was recorded.
SaveUserMessageThenReply(t, db) ==
  /\ turn[t].pc = "RecordingUser"
  /\ LET row == UserMessageRow(turn[t].user, turn[t].message)
         res == InsertChatHistory(chat_history, turn[t].req.token, row, db)
     IN /\ Issues(t, [api |-> "insert", table |-> "chat_history", row |-> row])
        /\ chat_history' = res.rows
        /\ Goes(t, [turn[t] EXCEPT
                      !.pc = IF Truthy(res.error) THEN "Responding"
                                                  ELSE "RecordingAI",
                      !.saveUserError = res.error],
                IF Truthy(res.error)
                  THEN <<LogError("Error saving user message:", res.error)>>
                  ELSE <<>>)
  /\ UNCHANGED <<dbvars, page>>

SaveUserMessage(t, db) ==
  /\ turn[t].pc = "RecordingUser"
  /\ LET row == UserMessageRow(turn[t].user, turn[t].message)
         res == InsertChatHistory(chat_history, turn[t].req.token, row, db)
     IN /\ Issues(t, [api |-> "insert", table |-> "chat_history", row |-> row])
        /\ chat_history' = res.rows
        /\ Goes(t, [turn[t] EXCEPT !.pc = "RecordingAI",
                                   !.saveUserError = res.error],
                IF Truthy(res.error)
                  THEN <<LogError("Error saving user message:", res.error)>>
                  ELSE <<>>)
  /\ UNCHANGED <<dbvars, page>>

\* Variant: a reply that could not be stored is inserted once more.
SaveAIMessageRetry(t, db) ==
  /\ turn[t].pc = "RecordingAI"
  /\ LET row == AIMessageRow(turn[t].user, turn[t].aiResponse)
         res == InsertChatHistory(chat_history, turn[t].req.token, row, db)
         again == /\ Truthy(res.error)
                  /\ Len(SelectSeq(calls[t], LAMBDA c : c.api = "insert")) < 2
     IN /\ Issues(t, [api |-> "insert", table |-> "chat_history", row |-> row])
        /\ chat_history' = res.rows
        /\ Goes(t, [turn[t] EXCEPT
                      !.pc = IF again THEN "RecordingAI" ELSE "Responding",
                      !.saveAIError = res.error],
                IF Truthy(res.error)
                  THEN <<LogError("Error saving AI message:", res.error)>>
                  ELSE <<>>)
  /\ UNCHANGED <<dbvars, page>>

SaveAIMessage(t, db) ==
  /\ turn[t].pc = "RecordingAI"
  /\ LET row == AIMessageRow(turn[t].user, turn[t].aiResponse)
         res == InsertChatHistory(chat_history, turn[t].req.token, row, db)
     IN /\ Issues(t, [api |-> "insert", table |-> "chat_history", row |-> row])
        /\ chat_history' = res.rows
        /\ Goes(t, [turn[t] EXCEPT !.pc = "Responding",
                                   !.saveAIError = res.error],
                IF Truthy(res.error)
                  THEN <<LogError("Error saving AI message:", res.error)>>
                  ELSE <<>>)
  /\ UNCHANGED <<dbvars, page>>

\* Variant: a reply that could not be stored is answered as a failure.
RespondOnlyIfSaved(t) ==
  /\ turn[t].pc = "Responding"
  /\ IF Truthy(turn[t].saveAIError)
       THEN Thrown(t, turn[t], Error("Failed to save message"), <<>>)
       ELSE Goes(t, [turn[t] EXCEPT !.pc = "Done",
                                    !.out = SuccessResponse(turn[t].aiResponse)],
                 <<LogInfo("Messages saved to chat history", Undefined)>>)
  /\ UNCHANGED <<dbvars, page, chat_history, calls>>

\* Variant: the reply is kept in one place shared by the invocations, and
\* the response is built from whatever reply is there.
RespondShared(t) ==
  /\ turn[t].pc = "Responding"
  /\ \E s \in DOMAIN turn :
       /\ turn[s].pc \in {"RecordingUser", "RecordingAI", "Responding", "Done"}
       /\ turn[s].failedAt = ""
       /\ Goes(t, [turn[t] EXCEPT !.pc = "Done",
                                  !.out = SuccessResponse(turn[s].aiResponse)],
               <<LogInfo("Messages saved to chat history", Undefined)>>)
  /\ UNCHANGED <<dbvars, page, chat_history, calls>>

Respond(t) ==
  /\ turn[t].pc = "Responding"
  /\ Goes(t, [turn[t] EXCEPT !.pc = "Done",
                             !.out = SuccessResponse(turn[t].aiResponse)],
          <<LogInfo("Messages saved to chat history", Undefined)>>)
  /\ UNCHANGED <<dbvars, page, chat_history, calls>>

(***************************************************************************)
(* The specification: one turn, every answer of the environment.           *)
(***************************************************************************)
Next ==
  \E t \in Turns :
    \/ \E r \in Requests : Receive(t, r)
    \/ Preflight(t)
    \/ Configure(t)
    \/ \E res \in AllAuthResults : GetUser(t, res)
    \/ \E db \in DbOutcomes : ReadProfile(t, db)
    \/ \E db \in DbOutcomes : ReadCredit(t, db)
    \/ \E db \in DbOutcomes : ReadGoals(t, db)
    \/ ParseBody(t)
    \/ Synthesize(t)
    \/ \E resp \in ProviderResponses : Fetch(t, resp)
    \/ CheckStatus(t)
    \/ ExtractReply(t)
    \/ \E db \in DbOutcomes : SaveUserMessage(t, db)
    \/ \E db \in DbOutcomes : SaveAIMessage(t, db)
    \/ Respond(t)

Spec == Init /\ [][Next]_vars

(***************************************************************************)
(* Vocabulary of the properties.                                           *)
(***************************************************************************)
Done(t) == turn[t].pc = "Done"

\* The turn ended in the catch block.
Failed(t) == Done(t) /\ turn[t].failedAt # ""

ReadingSteps == {"ReadingProfile", "ReadingCredit", "ReadingGoals"}
InvokingSteps == {"Invoking", "CheckingStatus", "Extracting"}

CallsOf(t, api) == SelectSeq(calls[t], LAMBDA c : c.api = api)

\* getUser answered with an error or without a user.
AuthFailed(t) ==
  /\ CallsOf(t, "auth.getUser") # <<>>
  /\ Truthy(turn[t].userError) \/ ~Truthy(turn[t].user)

\* The provider answered the turn's request.
ProviderAnswered(t) == turn[t].response # Undefined

ProviderNonSuccess(t) == ProviderAnswered(t) /\ ~turn[t].response.ok

\* The provider answered with success status and a payload holding a reply.
WellFormedReply(t, r) ==
  /\ ProviderAnswered(t)
  /\ turn[t].response.ok
  /\ turn[t].response.json = ReplyPayload(r)

\* The failure response with a given message.
FailureResponse(message) ==
  [status |-> 500, body |-> Obj([error |-> Str(message)])]

\* The success response carrying a given text.
ReplyResponse(text) ==
  [status |-> 200, body |-> Obj([response |-> Str(text)])]

\* The rows chat_history gained since the turn started.
AppendedRows ==
  SubSeq(chat_history, Len(InitHistory) + 1, Len(chat_history))

Lines(text) == {text[i] : i \in DOMAIN text}

(***************************************************************************)
(* C1. A turn whose provider call succeeds and whose two inserts succeed   *)
(* appends exactly two rows for the authenticated identity, the request's  *)
(* message first (user-authored) and the reply second (assistant-          *)
(* authored), and returns exactly the text extracted from the provider     *)
(* response, the text of the assistant row.                                *)
(***************************************************************************)
C1_TwoRowsThenReply ==
  \A t \in Turns :
    (/\ Done(t)
     /\ ProviderAnswered(t)
     /\ turn[t].response.ok
     /\ turn[t].saveUserError = Null
     /\ turn[t].saveAIError = Null)
    => \E r \in Replies :
         /\ WellFormedReply(t, r)
         /\ chat_history =
              InitHistory
                \o << ChatRow(turn[t].req.token, turn[t].req.body.f.message.v,
                              TRUE, Len(InitHistory) + 1),
                      ChatRow(turn[t].req.token, r, FALSE,
                              Len(InitHistory) + 2) >>
         /\ turn[t].out = ReplyResponse(r)

C1_Witness ==
  \E t \in Turns :
    /\ Done(t)
    /\ turn[t].saveUserError = Null
    /\ turn[t].saveAIError = Null
    /\ Len(AppendedRows) = 2
    /\ turn[t].out.status = 200

(***************************************************************************)
(* C2. Whenever the provider returns a non-success status, the turn ends   *)
(* failed and appends no row to chat_history, neither the user message     *)
(* nor an assistant message.                                               *)
(***************************************************************************)
C2_ProviderFailureAppendsNothing ==
  \A t \in Turns :
    ProviderNonSuccess(t)
    => /\ turn[t].pc \in {"CheckingStatus", "Done"}
       /\ Done(t) => Failed(t) /\ turn[t].out.status = 500
       /\ CallsOf(t, "insert") = <<>>
       /\ chat_history = InitHistory

C2_Witness ==
  \E t \in Turns : ProviderNonSuccess(t) /\ Failed(t) /\ AppendedRows = <<>>

(***************************************************************************)
(* C3. After a successful provider call the caller receives the success    *)
(* response with the provider's reply text whatever the two inserts did:   *)
(* the response is the same for every combination of their outcomes.       *)
(***************************************************************************)
C3_ResponseIgnoresRecording ==
  \A t \in Turns : \A r \in Replies :
    (Done(t) /\ WellFormedReply(t, r))
    => /\ turn[t].out = ReplyResponse(r)
       /\ Len(CallsOf(t, "insert")) = 2

C3_Witness ==
  \E t \in Turns : \E r \in Replies :
    /\ Done(t)
    /\ WellFormedReply(t, r)
    /\ Truthy(turn[t].saveUserError)
    /\ Truthy(turn[t].saveAIError)
    /\ AppendedRows = <<>>
    /\ turn[t].out = ReplyResponse(r)

(***************************************************************************)
(* C4. When authentication yields an error or no user, the turn fails      *)
(* before any profile, credit or goal read is issued, and no provider      *)
(* request and no history insert occurs in that turn.                      *)
(***************************************************************************)
C4_AuthFailureStopsTheTurn ==
  \A t \in Turns :
    AuthFailed(t)
    => /\ Failed(t)
       /\ turn[t].failedAt = "Authenticating"
       /\ calls[t] = <<[api |-> "auth.getUser", token |-> turn[t].req.token]>>
       /\ chat_history = InitHistory

C4_Witness ==
  \E t \in Turns :
    /\ AuthFailed(t)
    /\ ~Truthy(turn[t].userError)
    /\ Failed(t)
    /\ Len(calls[t]) = 1

(***************************************************************************)
(* C5. A failure of the profile, credit or goal read, in any combination,  *)
(* never fails the turn: it goes on to synthesis and to the provider       *)
(* call, a failed or not-found profile rendered through the identity       *)
(* fallbacks, a failed or not-found credit read giving no credit block, a  *)
(* failed goal read giving no goal block.                                  *)
(***************************************************************************)
FetchIssued(t) == CallsOf(t, "fetch") # <<>>

\* The system message of the request the turn sent to the provider.
PromptSent(t) == CallsOf(t, "fetch")[1].body.messages[1].f.content.a

C5_ReadFailuresAreAbsorbed ==
  \A t \in Turns :
    /\ turn[t].failedAt \notin ReadingSteps
    /\ (Done(t) /\ turn[t].goalsError # Undefined /\ turn[t].req.body.k = "obj")
       => FetchIssued(t)
    /\ FetchIssued(t)
       => /\ Len(CallsOf(t, "select")) = 3
          /\ Truthy(turn[t].profileError)
             => SubSeq(PromptSent(t), 4, 6)
                  = << "- Name: Unknown ", "- Age: Not provided",
                       "- Email: Not provided" >>
          /\ Truthy(turn[t].creditError)
             => "Credit Information:" \notin Lines(PromptSent(t))
          /\ Truthy(turn[t].goalsError)
             => "Financial Goals:" \notin Lines(PromptSent(t))

C5_Witness ==
  \E t \in Turns :
    /\ FetchIssued(t)
    /\ RowsFor(profiles, turn[t].req.token) # {}
    /\ RowsFor(credit_info, turn[t].req.token) # {}
    /\ financial_goals[turn[t].req.token] # <<>>
    /\ turn[t].profileError = StorageFailure
    /\ turn[t].creditError = StorageFailure
    /\ turn[t].goalsError = StorageFailure
    /\ Len(PromptSent(t)) = Len(Preamble) + 3 + Len(Closing)
    /\ Done(t)
    /\ turn[t].out.status = 200

(***************************************************************************)
(* C6. A provider response with success status whose payload lacks the     *)
(* reply (no choices, no first choice, no message, no content) gives the   *)
(* failed outcome of a non-success status: the failure response, never a   *)
(* success response, and no row appended.                                  *)
(***************************************************************************)
C6_MissingReplyFailsTheTurn ==
  \A t \in Turns :
    (/\ ProviderAnswered(t)
     /\ turn[t].response.ok
     /\ turn[t].response.json \in LacksReply)
    => /\ chat_history = InitHistory
       /\ Done(t) => Failed(t) /\ turn[t].out.status = 500

(***************************************************************************)
(* C7. The error string returned for a provider failure does not depend    *)
(* on the provider's error body: it is fixed by the status alone, and the  *)
(* body text appears only in the log.                                      *)
(***************************************************************************)
C7_ErrorIndependentOfBody ==
  \A t \in Turns :
    (Done(t) /\ ProviderNonSuccess(t))
    => /\ turn[t].out =
            FailureResponse("OpenAI API error: "
                              \o ToString(turn[t].response.status))
       /\ \E i \in DOMAIN log[t] :
            log[t][i] = LogError("OpenAI API error:",
                                 Str(turn[t].response.text))

C7_Witness ==
  \E t \in Turns :
    /\ Done(t)
    /\ ProviderNonSuccess(t)
    /\ turn[t].response.text = "upstream failure in shard 7"
    /\ turn[t].response.status = 429
    /\ turn[t].out = FailureResponse("OpenAI API error: 429")

(***************************************************************************)
(* C8. Every failed turn, whatever its cause (missing configuration,       *)
(* authentication, request body, provider, any thrown error), is answered  *)
(* with status 500 and a JSON body holding an error string.                *)
(***************************************************************************)
\* Payloads of a success response whose reply cannot be read.
ThrowingPayloads == {Malformed, NoChoices, EmptyChoices, NoMessage}

\* The provider call failed: rejected, non-success status, unreadable reply.
InvokingFailed(t) ==
  /\ FetchIssued(t)
  /\ Done(t)
  /\ \/ ~ProviderAnswered(t)
     \/ ~turn[t].response.ok
     \/ turn[t].response.json \in ThrowingPayloads

HasFailureCause(t) ==
  \/ ~Truthy(env.OPEN_AI_API_KEY)
  \/ AuthFailed(t)
  \/ turn[t].req.body.k # "obj"
  \/ InvokingFailed(t)

C8_EveryFailureIs500 ==
  \A t \in Turns :
    (/\ Done(t)
     /\ turn[t].req.method # "OPTIONS"
     /\ Failed(t) \/ HasFailureCause(t))
    => /\ turn[t].out.status = 500
       /\ turn[t].out.body.k = "obj"
       /\ DOMAIN turn[t].out.body.f = {"error"}
       /\ turn[t].out.body.f.error.k = "str"

C8_Witness ==
  \E t \in Turns :
    /\ Failed(t)
    /\ turn[t].failedAt = "Extracting"
    /\ turn[t].response.json = EmptyChoices
    /\ turn[t].out.status = 500

(***************************************************************************)
(* C9. A failure in Authenticating leads to Failed with status 500, and a  *)
(* failure in Invoking leads to Failed with status 500: neither gets a     *)
(* status of its own.                                                      *)
(***************************************************************************)
C9_BothFailuresAnswered500 ==
  \A t \in Turns :
    /\ (Done(t) /\ AuthFailed(t))
       => turn[t].failedAt = "Authenticating" /\ turn[t].out.status = 500
    /\ InvokingFailed(t)
       => turn[t].failedAt \in InvokingSteps /\ turn[t].out.status = 500

C9_Witness ==
  \E t \in Turns :
    /\ Done(t)
    /\ AuthFailed(t)
    /\ Truthy(turn[t].userError)
    /\ turn[t].out = FailureResponse("User not authenticated")

\* C9 as stated: a failure in Authenticating is answered with a 401-class
\* (4xx) status and a failure in Invoking with a 502-class (5xx) status.
C9_AsStated ==
  \A t \in Turns :
    /\ (Done(t) /\ AuthFailed(t)) => turn[t].out.status \in 400..499
    /\ InvokingFailed(t) => turn[t].out.status \in 500..599

(***************************************************************************)
(* C10. A turn fails only through an error thrown before the reply is      *)
(* extracted: a missing API key, an authentication failure, a request      *)
(* body that cannot be read, or a provider failure. State reads and        *)
(* history inserts never fail it, and every turn in which authentication   *)
(* succeeds and the provider returns a well-formed success response is     *)
(* answered with the success response.                                     *)
(***************************************************************************)
C10_FailureCauses ==
  \A t \in Turns :
    /\ Failed(t)
       => /\ turn[t].failedAt
               \in {"Start", "Authenticating", "ParsingBody"} \cup InvokingSteps
          /\ turn[t].failedAt = "Start" => ~Truthy(env.OPEN_AI_API_KEY)
          /\ turn[t].failedAt = "Authenticating" => AuthFailed(t)
          /\ turn[t].failedAt = "ParsingBody" => turn[t].req.body.k # "obj"
          /\ turn[t].failedAt \in InvokingSteps => InvokingFailed(t)
    /\ \A r \in Replies :
         (Done(t) /\ WellFormedReply(t, r))
         => ~Failed(t) /\ turn[t].out.status = 200

C10_Witness ==
  \E t \in Turns :
    /\ Failed(t)
    /\ turn[t].failedAt = "ParsingBody"
    /\ ~AuthFailed(t)
    /\ ~FetchIssued(t)
    /\ turn[t].out.status = 500

\* C10 as stated: the failed outcome is reached only through an
\* authentication failure or a provider failure.
C10_AsStated ==
  \A t \in Turns :
    /\ Failed(t) => AuthFailed(t) \/ InvokingFailed(t)
    /\ \A r \in Replies :
         (Done(t) /\ ~AuthFailed(t) /\ WellFormedReply(t, r))
         => turn[t].out = ReplyResponse(r)

(***************************************************************************)
(* C11. In every turn at most one request is sent to the completion        *)
(* provider, and after a provider failure (rejected request, non-success   *)
(* status, unreadable payload) the turn issues no further call at all:     *)
(* the single provider request is the last call of the turn.               *)
(***************************************************************************)
C11_AtMostOneProviderRequest ==
  \A t \in Turns :
    /\ Len(CallsOf(t, "fetch")) <= 1
    /\ (ProviderNonSuccess(t) \/ InvokingFailed(t))
       => /\ Len(CallsOf(t, "fetch")) = 1
          /\ calls[t][Len(calls[t])].api = "fetch"

C11_Witness ==
  \E t \in Turns :
    /\ ProviderNonSuccess(t)
    /\ Failed(t)
    /\ turn[t].failedAt = "CheckingStatus"
    /\ Len(CallsOf(t, "fetch")) = 1

(***************************************************************************)
(* C20. The two recorder calls are independent. In every turn whose        *)
(* provider call succeeded, once recording is over the turn has attempted  *)
(* exactly two inserts, the user message and then the reply, whatever the  *)
(* first insert returned; and a user row that was stored stays in          *)
(* chat_history when the insert of the reply fails.                        *)
(***************************************************************************)
Recorded(t) ==
  /\ turn[t].pc \in {"Responding", "Done"}
  /\ ~Failed(t)
  /\ ProviderAnswered(t)
  /\ turn[t].response.ok

C20_RecorderCallsIndependent ==
  \A t \in Turns :
    Recorded(t)
    => /\ CallsOf(t, "insert")
            = << [api |-> "insert", table |-> "chat_history",
                  row |-> UserMessageRow(turn[t].user, turn[t].message)],
                 [api |-> "insert", table |-> "chat_history",
                  row |-> AIMessageRow(turn[t].user, turn[t].aiResponse)] >>
       /\ turn[t].saveUserError = Null
          => /\ Len(AppendedRows) >= 1
             /\ AppendedRows[1]
                  = ChatRow(turn[t].req.token, turn[t].message.v, TRUE,
                            Len(InitHistory) + 1)

C20_Witness ==
  \E t \in Turns :
    /\ Recorded(t)
    /\ Truthy(turn[t].saveUserError)
    /\ turn[t].saveAIError = Null
    /\ Len(CallsOf(t, "insert")) = 2
    /\ Len(AppendedRows) = 1
    /\ ~AppendedRows[1].is_user_message

C20_WitnessReplyLost ==
  \E t \in Turns :
    /\ Recorded(t)
    /\ turn[t].saveUserError = Null
    /\ Truthy(turn[t].saveAIError)
    /\ Len(AppendedRows) = 1
    /\ AppendedRows[1].is_user_message

(***************************************************************************)
(* Synthesis over the stored contexts: one turn of u1 that authenticates,  *)
(* reads and synthesizes, for the rows the three tables can hold (every    *)
(* column read is nullable; the numeric ones can hold 0).                  *)
(***************************************************************************)
SynthesisProfiles ==
  [first_name : {Str("Ana"), Null}, last_name : {Str("Lima"), Null},
   age : {Num(30), Num(0), Null}, email : {Str("ana@example.com"), Null}]

SynthesisCredits ==
  [credit_score : {Num(700), Num(0), Null},
   total_debt : {Num(1500), Num(0), Null},
   late_payments : {Num(2), Num(0), Null},
   credit_utilization : {Num(30), Num(0), Null}]

SynthesisGoals ==
  [title : {Str("Buy a house"), Str("Pay off card")}, description : {Null},
   target_amount : {Num(400000), Num(0), Null},
   target_date : {Str("2027-06-30"), Null},
   priority : {Str("high")}, status : {Str("active")}]
    \cup { [title |-> Str("Emergency fund"),
            description |-> Str("Three months of rent"),
            target_amount |-> Num(3000), target_date |-> Null,
            priority |-> Null, status |-> Null] }

FullProfile ==
  [first_name |-> Str("Ana"), last_name |-> Str("Lima"), age |-> Num(30),
   email |-> Str("ana@example.com")]

EmptyProfile ==
  [first_name |-> Null, last_name |-> Null, age |-> Null, email |-> Null]

FullCredit ==
  [credit_score |-> Num(700), total_debt |-> Num(1500),
   late_payments |-> Num(2), credit_utilization |-> Num(30)]

EmptyCredit ==
  [credit_score |-> Null, total_debt |-> Null, late_payments |-> Null,
   credit_utilization |-> Null]

ListsOver(rows) == UNION {[1..n -> rows] : n \in 0..MaxGoals}

\* The stored contexts: the presence combinations, then each table in turn
\* over all its rows with the other two fixed.
SynthesisContexts ==
  [profile : {NoRow, FullProfile, EmptyProfile},
   credit : {NoRow, FullCredit, EmptyCredit},
   goals : ListsOver(GoalRows \cup {CHOOSE g \in SynthesisGoals :
                                      g.priority = Null})]
    \cup [profile : SynthesisProfiles, credit : {NoRow}, goals : {<<>>}]
    \cup [profile : {NoRow}, credit : SynthesisCredits,
          goals : ListsOver(GoalRows)]
    \cup [profile : {FullProfile}, credit : {NoRow},
          goals : ListsOver(SynthesisGoals)]

SynthesisInit ==
  /\ env = [OPEN_AI_API_KEY |-> Str("sk-test")]
  /\ auth_users = Users
  /\ \E c \in SynthesisContexts :
       /\ profiles = RowsOf("u1", c.profile)
       /\ credit_info = RowsOf("u1", c.credit)
       /\ financial_goals = [u \in Users |-> IF u = "u1" THEN c.goals ELSE <<>>]
  /\ chat_history = InitHistory
  /\ turn = [t \in Turns |-> NewTurn]
  /\ calls = [t \in Turns |-> <<>>]
  /\ log = [t \in Turns |-> <<>>]
  /\ page = NewPage

SynthesisRequest ==
  [method |-> "POST", token |-> "u1",
   body |-> Obj([message |-> Str("How much should I save monthly?")])]

SynthesisNext ==
  \E t \in Turns :
    \/ Receive(t, SynthesisRequest)
    \/ Configure(t)
    \/ GetUser(t, [user |-> Obj([id |-> Str("u1")]), error |-> Null])
    \/ ReadProfile(t, "ok")
    \/ ReadCredit(t, "ok")
    \/ \E db \in DbOutcomes : ReadGoals(t, db)
    \/ ParseBody(t)
    \/ Synthesize(t)

SpecSynthesis == SynthesisInit /\ [][SynthesisNext]_vars

\* The turn has synthesized its instruction text.
Synthesized(t) == turn[t].pc = "Invoking"

StartsWith(s, p) == Len(s) >= Len(p) /\ SubSeq(s, 1, Len(p)) = p

LastLines(text, n) == SubSeq(text, Len(text) - n + 1, Len(text))

(***************************************************************************)
(* C12. For every combination of profile (present or absent), credit info  *)
(* (present or absent) and goal list (null, empty or non-empty) the        *)
(* synthesized text begins with the fixed persona preamble, goes on with   *)
(* the Name, Age and Email lines (with their fallbacks when the profile    *)
(* is absent) and ends with the fixed closing instruction.                 *)
(***************************************************************************)
C12_PromptFrame ==
  \A t \in Turns :
    Synthesized(t)
    => LET text == turn[t].systemPrompt
       IN /\ Len(text) >= Len(Preamble) + 3 + Len(Closing)
          /\ SubSeq(text, 1, Len(Preamble)) = Preamble
          /\ StartsWith(text[Len(Preamble) + 1], "- Name: ")
          /\ StartsWith(text[Len(Preamble) + 2], "- Age: ")
          /\ StartsWith(text[Len(Preamble) + 3], "- Email: ")
          /\ Nullish(turn[t].profile)
             => SubSeq(text, Len(Preamble) + 1, Len(Preamble) + 3)
                  = << "- Name: Unknown ", "- Age: Not provided",
                       "- Email: Not provided" >>
          /\ LastLines(text, Len(Closing)) = Closing

C12_Witness ==
  \E t \in Turns :
    /\ Synthesized(t)
    /\ turn[t].profile = Null
    /\ turn[t].creditInfo = Null
    /\ turn[t].goals = Null
    /\ turn[t].systemPrompt
         = Preamble
             \o << "- Name: Unknown ", "- Age: Not provided",
                   "- Email: Not provided" >>
             \o Closing

(***************************************************************************)
(* C13. When credit info is present the synthesized text holds, right      *)
(* after the identity block, a credit block with all four lines. A null    *)
(* late_payments is shown as 0, and a null credit score, total debt or     *)
(* utilization is shown as "Not provided" (inside the line's "$" and "%"   *)
(* decoration), each whatever the other fields hold.                       *)
(***************************************************************************)
CreditLines(t) ==
  SubSeq(turn[t].systemPrompt, Len(Preamble) + 4, Len(Preamble) + 9)

C13_CreditBlockFallbacks ==
  \A t \in Turns :
    (Synthesized(t) /\ ~Nullish(turn[t].creditInfo))
    => LET credit == turn[t].creditInfo
           block == CreditLines(t)
       IN /\ Len(turn[t].systemPrompt) >= Len(Preamble) + 9 + Len(Closing)
          /\ block[1] = ""
          /\ block[2] = "Credit Information:"
          /\ StartsWith(block[3], "- Credit Score: ")
          /\ StartsWith(block[4], "- Total Debt: $")
          /\ StartsWith(block[5], "- Late Payments: ")
          /\ StartsWith(block[6], "- Credit Utilization: ")
          /\ Get(credit, "credit_score") = Null
             => block[3] = "- Credit Score: Not provided"
          /\ Get(credit, "total_debt") = Null
             => block[4] = "- Total Debt: $Not provided"
          /\ Get(credit, "late_payments") = Null
             => block[5] = "- Late Payments: 0"
          /\ Get(credit, "credit_utilization") = Null
             => block[6] = "- Credit Utilization: Not provided%"

C13_Witness ==
  \E t \in Turns :
    /\ Synthesized(t)
    /\ ~Nullish(turn[t].creditInfo)
    /\ Get(turn[t].creditInfo, "late_payments") = Null
    /\ Get(turn[t].creditInfo, "credit_score") = Num(700)
    /\ Get(turn[t].creditInfo, "total_debt") = Null
    /\ CreditLines(t)
         = << "", "Credit Information:", "- Credit Score: 700",
              "- Total Debt: $Not provided", "- Late Payments: 0",
              "- Credit Utilization: 30%" >>

(***************************************************************************)
(* C14. For a goal list [g1..gN], N >= 1, returned by the goal read, the   *)
(* goal block lists the goals in that order numbered 1..N, and the entry   *)
(* of each goal carries the "(Target: $amount)" suffix exactly when its    *)
(* target_amount is set (not null) and the "(Due: date)" suffix exactly    *)
(* when its target_date is set, each independently of the other. Violated  *)
(* by a goal whose stored target_amount is 0.                              *)
(***************************************************************************)
\* The first line of a goal's entry as the claim describes it.
EntryHeading(goal, number) ==
  ToString(number) \o ". " \o Render(Get(goal, "title"))
    \o (IF Get(goal, "target_amount") # Null
          THEN " (Target: $" \o Render(Get(goal, "target_amount")) \o ")"
          ELSE "")
    \o (IF Get(goal, "target_date") # Null
          THEN " (Due: " \o Render(Get(goal, "target_date")) \o ")"
          ELSE "")

\* The goal block of the synthesized text: what follows the identity and
\* credit blocks, without the closing instruction.
GoalLines(t) ==
  LET text == turn[t].systemPrompt
      from == Len(Preamble) + 3
                + (IF Nullish(turn[t].creditInfo) THEN 0 ELSE 6)
  IN SubSeq(text, from + 1, Len(text) - Len(Closing))

\* The entry headings of the goal block: its lines that are not indented.
Headings(t) ==
  SelectSeq(GoalLines(t),
            LAMBDA line : line \notin {"", "Financial Goals:"}
                            /\ ~StartsWith(line, "   "))

GoalsListed(t) ==
  /\ Synthesized(t)
  /\ turn[t].goals.k = "arr"
  /\ Len(turn[t].goals.a) >= 1

C14_GoalBlockAsStated ==
  \A t \in Turns :
    GoalsListed(t)
    => /\ SubSeq(GoalLines(t), 1, 2) = <<"", "Financial Goals:">>
       /\ Headings(t)
            = [i \in 1..Len(turn[t].goals.a) |->
                 EntryHeading(turn[t].goals.a[i], i)]

\* The same with "set" read as the code tests it: neither null nor 0.
EntryHeadingTruthy(goal, number) ==
  ToString(number) \o ". " \o Render(Get(goal, "title"))
    \o (IF Get(goal, "target_amount") \notin {Null, Num(0)}
          THEN " (Target: $" \o Render(Get(goal, "target_amount")) \o ")"
          ELSE "")
    \o (IF Get(goal, "target_date") # Null
          THEN " (Due: " \o Render(Get(goal, "target_date")) \o ")"
          ELSE "")

C14_GoalBlockExceptZero ==
  \A t \in Turns :
    GoalsListed(t)
    => /\ SubSeq(GoalLines(t), 1, 2) = <<"", "Financial Goals:">>
       /\ Headings(t)
            = [i \in 1..Len(turn[t].goals.a) |->
                 EntryHeadingTruthy(turn[t].goals.a[i], i)]

C14_ZeroTargetDropped ==
  \E t \in Turns :
    /\ GoalsListed(t)
    /\ Get(turn[t].goals.a[1], "target_amount") = Num(0)
    /\ Get(turn[t].goals.a[1], "target_date") = Null
    /\ Headings(t)[1] = "1. Buy a house"

(***************************************************************************)
(* Turns over different stored conversations: the same contexts and        *)
(* requests, with chat_history drawn from several histories.               *)
(***************************************************************************)
Histories ==
  { <<>>,
    InitHistory,
    InitHistory \o <<ChatRow("u1", "Start with a budget.", FALSE, 2)>>,
    <<ChatRow("u2", "What is a credit score?", TRUE, 1)>> }

HistoryInit ==
  /\ env = [OPEN_AI_API_KEY |-> Str("sk-test")]
  /\ auth_users = Users
  /\ \E p \in {NoRow, FullProfile} : profiles = RowsOf("u1", p)
  /\ \E c \in {NoRow, FullCredit} : credit_info = RowsOf("u1", c)
  /\ \E g \in GoalLists :
       financial_goals = [u \in Users |-> IF u = "u1" THEN g ELSE <<>>]
  /\ chat_history \in Histories
  /\ turn = [t \in Turns |-> NewTurn]
  /\ calls = [t \in Turns |-> <<>>]
  /\ log = [t \in Turns |-> <<>>]
  /\ page = NewPage

HistoryRequests ==
  [method : {"POST"}, token : {"u1"},
   body : {Obj([message |-> Str("How much should I save monthly?")]),
           Obj([message |-> Str("Should I pay off my card first?")]),
           Obj([text |-> Str("hello")])}]

HistoryNext ==
  \E t \in Turns :
    \/ \E r \in HistoryRequests : Receive(t, r)
    \/ Configure(t)
    \/ GetUser(t, [user |-> Obj([id |-> Str("u1")]), error |-> Null])
    \/ ReadProfile(t, "ok")
    \/ ReadCredit(t, "ok")
    \/ ReadGoals(t, "ok")
    \/ ParseBody(t)
    \/ Synthesize(t)
    \/ \E resp \in ProviderResponses : Fetch(t, resp)

SpecHistory == HistoryInit /\ [][HistoryNext]_vars

(***************************************************************************)
(* C15. The request sent to the provider holds exactly two messages, the   *)
(* synthesized text as system and the request's message as user, and is    *)
(* determined by the API key, the three reads and the request body alone:  *)
(* turns that differ only in chat_history send the same request.           *)
(***************************************************************************)
\* The two messages as the stored context and the request determine them.
SystemMessage(t) ==
  Obj([role |-> Str("system"),
       content |-> Arr(SystemPrompt(turn[t].profile, turn[t].creditInfo,
                                    turn[t].goals))])

UserMessage(t) ==
  IF Get(turn[t].req.body, "message") = Undefined
    THEN Obj([role |-> Str("user")])
    ELSE Obj([role |-> Str("user"),
              content |-> Get(turn[t].req.body, "message")])

C15_RequestIgnoresHistory ==
  \A t \in Turns :
    FetchIssued(t)
    => LET request == CallsOf(t, "fetch")[1]
       IN /\ request.body.messages = <<SystemMessage(t), UserMessage(t)>>
          /\ request.body.model = "gpt-4o-mini"
          /\ request.authorization = "Bearer " \o Render(env.OPEN_AI_API_KEY)

C15_Witness ==
  \E t \in Turns :
    /\ FetchIssued(t)
    /\ Len(chat_history) = 2
    /\ ~chat_history[2].is_user_message
    /\ Len(CallsOf(t, "fetch")[1].body.messages) = 2
    /\ CallsOf(t, "fetch")[1].body.messages[2]
         = Obj([role |-> Str("user"),
                content |-> Str("Should I pay off my card first?")])

(***************************************************************************)
(* Two concurrent turns: t1 by u1, t2 by u1 or u2, each with its own       *)
(* message; the provider answers each request for its message or with a    *)
(* non-success status, and each insert is served or fails.                 *)
(***************************************************************************)
ConcurrentTurns == {"t1", "t2"}

ConcurrentInit ==
  /\ env = [OPEN_AI_API_KEY |-> Str("sk-test")]
  /\ auth_users = Users
  /\ profiles = RowsOf("u1", FullProfile)
  /\ credit_info = RowsOf("u1", FullCredit)
  /\ financial_goals = [u \in Users |-> <<>>]
  /\ chat_history = InitHistory
  /\ turn = [t \in ConcurrentTurns |-> NewTurn]
  /\ calls = [t \in ConcurrentTurns |-> <<>>]
  /\ log = [t \in ConcurrentTurns |-> <<>>]
  /\ page = NewPage

ConcurrentRequests(t) ==
  IF t = "t1"
    THEN {[method |-> "POST", token |-> "u1",
           body |-> Obj([message |-> Str("How much should I save monthly?")])]}
    ELSE [method : {"POST"}, token : Users,
          body : {Obj([message |-> Str("Should I pay off my card first?")])}]

\* The reply the provider gives for a message.
ReplyFor(message) == "Answer to: " \o message

ConcurrentResponses(t) ==
  { [k |-> "response", ok |-> TRUE, status |-> 200, text |-> "body",
     json |-> ReplyPayload(ReplyFor(Render(turn[t].message)))],
    [k |-> "response", ok |-> FALSE, status |-> 500,
     text |-> "upstream failure in shard 7", json |-> Malformed] }

ConcurrentNext ==
  \E t \in ConcurrentTurns :
    \/ \E r \in ConcurrentRequests(t) : Receive(t, r)
    \/ Configure(t)
    \/ /\ turn[t].pc = "Authenticating"
       /\ GetUser(t, [user |-> Obj([id |-> Str(turn[t].req.token)]),
                      error |-> Null])
    \/ ReadProfile(t, "ok")
    \/ ReadCredit(t, "ok")
    \/ ReadGoals(t, "ok")
    \/ ParseBody(t)
    \/ Synthesize(t)
    \/ \E resp \in ConcurrentResponses(t) : Fetch(t, resp)
    \/ CheckStatus(t)
    \/ ExtractReply(t)
    \/ \E db \in DbOutcomes : SaveUserMessage(t, db)
    \/ \E db \in DbOutcomes : SaveAIMessage(t, db)
    \/ Respond(t)

SpecConcurrent == ConcurrentInit /\ [][ConcurrentNext]_vars

(***************************************************************************)
(* C19. For any interleaving of two concurrent turns, of the same or of    *)
(* different identities, each turn sends its own message with the context  *)
(* of its own identity, answers with the reply the provider gave to its    *)
(* own request (or with the failure of its own request), and its user row  *)
(* is appended before its own assistant row; nothing a turn holds or       *)
(* returns comes from the other turn.                                      *)
(***************************************************************************)
OwnMessage(t) == turn[t].req.body.f.message.v

\* The positions in chat_history of the rows a turn stored.
OwnUserRows(t) ==
  {i \in DOMAIN chat_history :
     /\ chat_history[i].is_user_message
     /\ chat_history[i].message = OwnMessage(t)}

OwnAssistantRows(t) ==
  {i \in DOMAIN chat_history :
     /\ ~chat_history[i].is_user_message
     /\ chat_history[i].message = ReplyFor(OwnMessage(t))}

C19_TurnsAreIsolated ==
  \A t \in DOMAIN turn :
    /\ FetchIssued(t)
       => CallsOf(t, "fetch")[1].body.messages
            = <<SystemMessage(t), UserMessage(t)>>
    /\ Done(t)
       => turn[t].out
            = IF turn[t].response.ok
                THEN ReplyResponse(ReplyFor(OwnMessage(t)))
                ELSE FailureResponse("OpenAI API error: 500")
    /\ turn[t].pc \in {"Responding", "Done"}
       => /\ Cardinality(OwnUserRows(t))
               = IF turn[t].saveUserError = Null THEN 1 ELSE 0
          /\ Cardinality(OwnAssistantRows(t))
               = IF turn[t].saveAIError = Null THEN 1 ELSE 0
          /\ \A i \in OwnUserRows(t) : \A j \in OwnAssistantRows(t) :
               /\ i < j
               /\ chat_history[i].user_id = turn[t].req.token
               /\ chat_history[j].user_id = turn[t].req.token
    /\ turn[t].pc \in {"RecordingUser", "RecordingAI"}
       => OwnAssistantRows(t) = {}

C19_Witness ==
  /\ DOMAIN turn = ConcurrentTurns
  /\ \A t \in ConcurrentTurns : Done(t) /\ turn[t].out.status = 200
  /\ turn["t1"].req.token = turn["t2"].req.token
  /\ OwnUserRows("t1") = {2}
  /\ OwnUserRows("t2") = {3}
  /\ OwnAssistantRows("t2") = {4}
  /\ OwnAssistantRows("t1") = {5}

(***************************************************************************)
(* The Chat page (Chat.tsx) of the signed-in session: loading the          *)
(* conversation, and sendMessage step by step (each await is a step).      *)
(***************************************************************************)
\* The most rows chat_history holds, and the most messages the page shows,
\* in the model: sendMessage is taken up only while what a send can add
\* still fits.
MaxRows == 5

RECURSIVE TrimStart(_)
TrimStart(s) ==
  IF Len(s) > 0 /\ SubSeq(s, 1, 1) = " "
    THEN TrimStart(SubSeq(s, 2, Len(s))) ELSE s

RECURSIVE TrimEnd(_)
TrimEnd(s) ==
  IF Len(s) > 0 /\ SubSeq(s, Len(s), Len(s)) = " "
    THEN TrimEnd(SubSeq(s, 1, Len(s) - 1)) ELSE s

\* String.prototype.trim over the texts of the model (blanks only).
Trim(s) == TrimEnd(TrimStart(s))

\* What the user has typed when a send event fires.
Inputs == {"", "  ", " How do I build credit? "}

\* A message as the page holds it (id and the client's own timestamp are
\* left out: nothing reads them).
ChatMessage(message, is_user_message) ==
  [message |-> message, is_user_message |-> is_user_message]

FallbackText ==
  "I'm here to help with your financial goals! I can provide advice on budgeting, credit improvement, debt management, and reaching your financial milestones. What would you like to discuss?"

\* Variant: the load removes the rows it has shown from the table.
SelectChatHistoryConsuming(history, uid, db) ==
  IF db = "fail" THEN [data |-> Null, error |-> StorageFailure, rows |-> history]
  ELSE [data |-> SelectSeq(history, LAMBDA r : r.user_id = uid),
        error |-> Null,
        rows |-> SelectSeq(history, LAMBDA r : r.user_id # uid)]

\* .from('chat_history').select('*').order('timestamp').limit(100) by the
\* identity uid: the select policy shows the identity its own rows; the
\* model never holds more than MaxRows rows, so the limit never cuts. The
\* table is left as it is.
SelectChatHistory(history, uid, db) ==
  IF db = "fail" THEN [data |-> Null, error |-> StorageFailure, rows |-> history]
  ELSE [data |-> SelectSeq(history, LAMBDA r : r.user_id = uid),
        error |-> Null,
        rows |-> history]

\* The activations of sendMessage that have not returned yet.
Sending == {s \in Sends : page.pc[s] # "idle"}

\* useEffect(() => { if (user) loadChatHistory() }, [user])
loadChatHistory(db) ==
  /\ page.loadingHistory
  /\ LET res == SelectChatHistory(chat_history, page.user, db)
     IN /\ chat_history' = res.rows
        /\ page' = [page EXCEPT
                      !.loadingHistory = FALSE,
                      !.messages =
                        IF Truthy(res.error) THEN @
                        ELSE [i \in 1..Len(res.data) |->
                                ChatMessage(Str(res.data[i].message),
                                            res.data[i].is_user_message)]]
  /\ UNCHANGED <<dbvars, turn, calls, log>>

\* The Chat page is opened again: its component state starts over.
Remount ==
  /\ Sending = {}
  /\ ~page.loadingHistory
  /\ page' = [page EXCEPT !.messages = <<>>, !.loading = FALSE,
                          !.loadingHistory = TRUE,
                          !.userMessage = [s \in Sends |-> ""]]
  /\ UNCHANGED <<dbvars, chat_history, turn, calls, log>>

\* saveMessage(message, isUserMessage): the table after the insert; an
\* error is caught and logged.
saveMessage(message, isUserMessage, db) ==
  InsertChatHistory(chat_history, page.user,
                    [user_id |-> Str(page.user), message |-> Str(message),
                     is_user_message |-> isUserMessage], db).rows

\* The activation a call of sendMessage runs as.
NextSend == IF page.pc["t1"] = "idle" THEN "t1" ELSE "t2"

\* Variant: the guard tests the input only, not the loading flag.
sendMessageUnguarded(text) ==
  /\ ~page.loadingHistory
  /\ IF Trim(text) = ""
       THEN UNCHANGED page
       ELSE /\ page.pc[NextSend] = "idle"
            /\ Len(chat_history) + 3 <= MaxRows
            /\ Len(page.messages) + 2 <= MaxRows
            /\ page' = [page EXCEPT
                          !.pc[NextSend] = "SavingUser",
                          !.loading = TRUE,
                          !.userMessage[NextSend] = Trim(text),
                          !.messages =
                            Append(@, ChatMessage(Str(Trim(text)), TRUE))]
  /\ UNCHANGED <<dbvars, chat_history, turn, calls, log>>

\* sendMessage up to its first await: the guard, setLoading(true), the user
\* message put on the page. The input is rendered once the history load is
\* over. The state updates of one event are rendered before the next event
\* is handled, so the guard reads the loading flag as it stands.
sendMessage(text) ==
  /\ ~page.loadingHistory
  /\ IF Trim(text) = "" \/ page.loading
       THEN UNCHANGED page
       ELSE /\ page.pc[NextSend] = "idle"
            /\ Len(chat_history) + 3 <= MaxRows   \* the page's row, the function's two
            /\ Len(page.messages) + 2 <= MaxRows  \* the message and its answer
            /\ page' = [page EXCEPT
                          !.pc[NextSend] = "SavingUser",
                          !.loading = TRUE,
                          !.userMessage[NextSend] = Trim(text),
                          !.messages =
                            Append(@, ChatMessage(Str(Trim(text)), TRUE))]
  /\ UNCHANGED <<dbvars, chat_history, turn, calls, log>>

\* await saveMessage(userMessage, true)
sendMessageSave(s, db) ==
  /\ page.pc[s] = "SavingUser"
  /\ chat_history' = saveMessage(page.userMessage[s], TRUE, db)
  /\ page' = [page EXCEPT !.pc[s] = "Invoking"]
  /\ UNCHANGED <<dbvars, turn, calls, log>>

\* supabase.functions.invoke('chat-with-ai', { body: { message } }): the
\* request reaches the function with the session's token, as invocation t.
sendMessageInvoke(t) ==
  /\ page.pc[t] = "Invoking"
  /\ turn[t].pc = "idle"
  /\ turn' = [turn EXCEPT ![t] =
                [NewTurn EXCEPT
                   !.pc = "Start",
                   !.req = [method |-> "POST", token |-> page.user,
                            body |-> Obj([message |-> Str(page.userMessage[t])])]]]
  /\ page' = [page EXCEPT !.pc[t] = "Awaiting"]
  /\ UNCHANGED <<dbvars, chat_history, calls, log>>

\* The rest of sendMessage once invoke resolves with the function's
\* response: a non-2xx status is an error and goes to the catch block.
sendMessageResult(t) ==
  /\ page.pc[t] = "Awaiting"
  /\ turn[t].pc = "Done"
  /\ IF turn[t].out.status = 200
       THEN page' = [page EXCEPT
                       !.pc[t] = "idle",
                       !.loading = FALSE,
                       !.messages =
                         Append(@, ChatMessage(Get(turn[t].out.body, "response"),
                                               FALSE))]
       ELSE page' = [page EXCEPT
                       !.pc[t] = "SavingFallback",
                       !.messages =
                         Append(@, ChatMessage(Str(FallbackText), FALSE))]
  /\ turn' = [turn EXCEPT ![t] = NewTurn]
  /\ calls' = [calls EXCEPT ![t] = <<>>]
  /\ log' = [log EXCEPT ![t] = <<>>]
  /\ UNCHANGED <<dbvars, chat_history>>

\* invoke resolves with an error without the function having run (the
\* request did not get through).
sendMessageUnreached(s) ==
  /\ page.pc[s] = "Invoking"
  /\ page' = [page EXCEPT
                !.pc[s] = "SavingFallback",
                !.messages = Append(@, ChatMessage(Str(FallbackText), FALSE))]
  /\ UNCHANGED <<dbvars, chat_history, turn, calls, log>>

\* await saveMessage(errorMsg.message, false); finally setLoading(false)
sendMessageFallback(s, db) ==
  /\ page.pc[s] = "SavingFallback"
  /\ chat_history' = saveMessage(FallbackText, FALSE, db)
  /\ page' = [page EXCEPT !.pc[s] = "idle", !.loading = FALSE]
  /\ UNCHANGED <<dbvars, turn, calls, log>>

\* The conversations found when the session starts.
ChatHistories ==
  { <<>>, <<ChatRow("u2", "What is a credit score?", TRUE, 1)>> }

ChatInit ==
  /\ env = [OPEN_AI_API_KEY |-> Str("sk-test")]
  /\ auth_users = Users
  /\ profiles = RowsOf("u1", FullProfile)
  /\ credit_info = RowsOf("u1", FullCredit)
  /\ financial_goals = [u \in Users |-> <<>>]
  /\ chat_history \in ChatHistories
  /\ turn = [t \in Turns |-> NewTurn]
  /\ calls = [t \in Turns |-> <<>>]
  /\ log = [t \in Turns |-> <<>>]
  /\ page = NewPage

\* The provider answers a request, or refuses it.
ChatResponses ==
  { [k |-> "response", ok |-> TRUE, status |-> 200, text |-> "body",
     json |-> ReplyPayload("Save 500 a month.")],
    [k |-> "response", ok |-> FALSE, status |-> 429,
     text |-> "rate limit reached for org-1", json |-> Malformed] }

ChatNext ==
  \/ \E db \in DbOutcomes : loadChatHistory(db)
  \/ Remount
  \/ \E text \in Inputs : sendMessage(text)
  \/ \E t \in Turns :
       \/ \E db \in DbOutcomes : sendMessageSave(t, db)
       \/ sendMessageUnreached(t)
       \/ \E db \in DbOutcomes : sendMessageFallback(t, db)
       \/ sendMessageInvoke(t)
       \/ sendMessageResult(t)
       \/ Configure(t)
       \/ /\ turn[t].pc = "Authenticating"
          /\ GetUser(t, [user |-> Obj([id |-> Str(turn[t].req.token)]),
                         error |-> Null])
       \/ ReadProfile(t, "ok")
       \/ ReadCredit(t, "ok")
       \/ ReadGoals(t, "ok")
       \/ ParseBody(t)
       \/ Synthesize(t)
       \/ \E resp \in ChatResponses : Fetch(t, resp)
       \/ CheckStatus(t)
       \/ ExtractReply(t)
       \/ \E db \in DbOutcomes : SaveUserMessage(t, db)
       \/ \E db \in DbOutcomes : SaveAIMessage(t, db)
       \/ Respond(t)

SpecChat == ChatInit /\ [][ChatNext]_vars

(***************************************************************************)
(* C16. Across any sequence of turns, client saves and history loads the   *)
(* conversation history is append-only: every step leaves the rows         *)
(* chat_history holds in place and unchanged, message, direction flag and  *)
(* timestamp, so the history of any later state extends the earlier one.   *)
(***************************************************************************)
C16_HistoryAppendOnly ==
  [][/\ Len(chat_history') >= Len(chat_history)
     /\ SubSeq(chat_history', 1, Len(chat_history)) = chat_history]_vars

C16_Witness ==
  /\ Len(chat_history) = MaxRows
  /\ Sending = {}
  /\ ~page.loadingHistory
  /\ \E i \in DOMAIN chat_history : chat_history[i].message = FallbackText
  /\ \E i \in DOMAIN chat_history : chat_history[i].message = "Save 500 a month."
  /\ Len(page.messages) = Len(chat_history)

(***************************************************************************)
(* The Profile page (Profile.tsx) and the write boundary of the tables.    *)
(***************************************************************************)
CheckViolation == Obj([code |-> Str("23514")])

\* auth.users.email of an identity.
UserEmail(id) == IF id = "u1" THEN "ana@example.com" ELSE "bo@example.com"

IsDigit(c) == c \in {"0", "1", "2", "3", "4", "5", "6", "7", "8", "9"}

DigitValue(c) == CHOOSE d \in 0..9 : ToString(d) = c

RECURSIVE DigitsValue(_, _)
DigitsValue(s, acc) ==
  IF Len(s) = 0 \/ ~IsDigit(SubSeq(s, 1, 1)) THEN acc
  ELSE DigitsValue(SubSeq(s, 2, Len(s)), acc * 10 + DigitValue(SubSeq(s, 1, 1)))

\* parseInt(s): the leading digits after leading blanks, NaN without any
\* (the texts of the model carry no sign).
ParseInt(s) ==
  IF Len(TrimStart(s)) = 0 \/ ~IsDigit(SubSeq(TrimStart(s), 1, 1)) THEN NaN
  ELSE Num(DigitsValue(TrimStart(s), 0))

\* parseFloat(s) over the texts of the model, which carry no decimal point.
ParseFloat(s) == ParseInt(s)

\* { ...prev, ...data } for a state object prev (null at first).
Spread(prev, data) ==
  IF Nullish(prev) THEN Obj(data)
  ELSE Obj([n \in DOMAIN prev.f \cup DOMAIN data |->
              IF n \in DOMAIN data THEN data[n] ELSE prev.f[n]])

\* Variant: upsert without a conflict target the table enforces: the row is
\* added beside the one the identity has.
UpsertAdding(table, uid, row, db) ==
  IF db = "fail" THEN [rows |-> table, error |-> StorageFailure]
  ELSE IF row.user_id # Str(uid) THEN [rows |-> table, error |-> RlsViolation]
  ELSE [rows |-> table \cup {row}, error |-> Null]

\* .from(table).upsert(row, { onConflict: 'user_id' }) by the identity uid:
\* INSERT ... ON CONFLICT (user_id) DO UPDATE over UNIQUE(user_id); the
\* insert and update policies check auth.uid() = user_id. The columns the
\* row does not name keep what the stored row has.
Upsert(table, uid, row, db) ==
  IF db = "fail" THEN [rows |-> table, error |-> StorageFailure]
  ELSE IF row.user_id # Str(uid) THEN [rows |-> table, error |-> RlsViolation]
  ELSE IF RowsFor(table, uid) = {}
    THEN [rows |-> table \cup {row}, error |-> Null]
  ELSE [rows |-> (table \ RowsFor(table, uid))
                   \cup {[n \in DOMAIN old \cup DOMAIN row |->
                            IF n \in DOMAIN row THEN row[n] ELSE old[n]]
                         : old \in RowsFor(table, uid)},
        error |-> Null]

\* handle_new_user(): AFTER INSERT ON auth.users, the profile row of the new
\* identity, names from the signup metadata. A second row for a user_id is
\* refused by UNIQUE(user_id) and the signup is rolled back with it.
handle_new_user(id, meta) ==
  /\ id \notin auth_users
  /\ IF RowsFor(profiles, id) # {}
       THEN UNCHANGED <<auth_users, profiles>>
       ELSE /\ auth_users' = auth_users \cup {id}
            /\ profiles' = profiles
                 \cup {[user_id |-> Str(id), email |-> Str(UserEmail(id)),
                        first_name |-> meta.first_name,
                        last_name |-> meta.last_name, age |-> Null]}
  /\ UNCHANGED <<env, credit_info, financial_goals, chat_history, turn, calls,
                 log, page>>

\* loadProfileData(): the three reads of the page; a failed profile or goal
\* read is thrown and ends the load, a failed credit read is only logged.
loadProfileData(dbProfile, dbCredit, dbGoals) ==
  /\ page.user \in auth_users
  /\ page.loadingProfile
  /\ LET profileRead == SelectSingle(profiles, page.user, dbProfile)
         creditRead == SelectSingle(credit_info, page.user, dbCredit)
         goalsRead == SelectAll(financial_goals, page.user, dbGoals)
         newestFirst(a) == [i \in 1..Len(a) |-> a[Len(a) + 1 - i]]
     IN page' =
          IF Truthy(profileRead.error) /\ profileRead.error # NotFound
            THEN [page EXCEPT !.loadingProfile = FALSE]
            ELSE [page EXCEPT
                    !.loadingProfile = FALSE,
                    !.profile = profileRead.data,
                    !.creditInfo =
                      IF Truthy(creditRead.error) /\ creditRead.error # NotFound
                        THEN @ ELSE creditRead.data,
                    !.goals =
                      IF Truthy(goalsRead.error)
                        THEN @ ELSE newestFirst(goalsRead.data.a)]
  /\ UNCHANGED <<dbvars, chat_history, turn, calls, log>>

\* The Profile page is opened again: its component state starts over.
RemountProfile ==
  /\ ~page.loadingProfile
  /\ page' = [page EXCEPT !.loadingProfile = TRUE, !.profile = Null,
                          !.creditInfo = Null, !.goals = <<>>]
  /\ UNCHANGED <<dbvars, chat_history, turn, calls, log>>

\* What the user has put into the profile form and the credit form.
ProfileForms ==
  [firstName : {"Ana", ""}, lastName : {"Lima"}, age : {"30", "0", ""}]

CreditForms ==
  [creditScore : {"700", ""}, totalDebt : {"0"}, latePayments : {"2", ""},
   creditUtilization : {"30"}]

profileData(user, formData) ==
  [user_id |-> Str(user),
   first_name |-> Str(formData.firstName),
   last_name |-> Str(formData.lastName),
   age |-> OrElse(ParseInt(formData.age), Null),
   email |-> Str(UserEmail(user))]

updateProfile(formData, db) ==
  /\ page.user \in auth_users
  /\ ~page.loadingProfile
  /\ LET res == Upsert(profiles, page.user, profileData(page.user, formData), db)
     IN /\ profiles' = res.rows
        /\ page' = IF Truthy(res.error) THEN page
                   ELSE [page EXCEPT
                           !.profile =
                             Spread(@, profileData(page.user, formData))]
  /\ UNCHANGED <<env, auth_users, credit_info, financial_goals, chat_history,
                 turn, calls, log>>

creditData(user, formData) ==
  [user_id |-> Str(user),
   credit_score |-> OrElse(ParseInt(formData.creditScore), Null),
   total_debt |-> OrElse(ParseFloat(formData.totalDebt), Null),
   late_payments |-> OrElse(ParseInt(formData.latePayments), Num(0)),
   credit_utilization |-> OrElse(ParseFloat(formData.creditUtilization), Null)]

updateCreditInfo(formData, db) ==
  /\ page.user \in auth_users
  /\ ~page.loadingProfile
  /\ LET res == Upsert(credit_info, page.user,
                       creditData(page.user, formData), db)
     IN /\ credit_info' = res.rows
        /\ page' = IF Truthy(res.error) THEN page
                   ELSE [page EXCEPT
                           !.creditInfo =
                             Spread(@, creditData(page.user, formData))]
  /\ UNCHANGED <<env, auth_users, profiles, financial_goals, chat_history,
                 turn, calls, log>>

GoalPriorities == {"high", "medium", "low"}
GoalStatuses == {"active", "completed", "paused"}

\* CHECK (column IN (...)): satisfied by the listed texts and by NULL.
CheckIn(value, texts) == value = Null \/ (value.k = "str" /\ value.v \in texts)

\* A column the insert does not name takes its DEFAULT.
Default(value, default) == IF value = Undefined THEN default ELSE value

\* .from('financial_goals').insert(row) by the identity uid: the goals of
\* the identity after the call, the row stored and the error returned.
InsertGoal(table, uid, row, db) ==
  LET stored ==
        [title |-> row.title,
         description |-> Default(row.description, Null),
         target_amount |-> Default(row.target_amount, Null),
         target_date |-> Default(row.target_date, Null),
         priority |-> Default(row.priority, Str("medium")),
         status |-> Default(row.status, Str("active"))]
  IN IF db = "fail"
       THEN [rows |-> table, data |-> Null, error |-> StorageFailure]
     ELSE IF row.user_id # Str(uid)
       THEN [rows |-> table, data |-> Null, error |-> RlsViolation]
     ELSE IF Nullish(row.title)
       THEN [rows |-> table, data |-> Null, error |-> NotNullViolation]
     ELSE IF ~CheckIn(stored.priority, GoalPriorities)
             \/ ~CheckIn(stored.status, GoalStatuses)
       THEN [rows |-> table, data |-> Null, error |-> CheckViolation]
     ELSE [rows |-> [table EXCEPT ![uid] = Append(@, stored)],
           data |-> Obj(stored), error |-> Null]

\* What the user has put into the new-goal form.
GoalForms ==
  [title : {"Buy a house", " "}, description : {""},
   target_amount : {"400000", "0", ""}, target_date : {""},
   priority : {"high", "urgent"}]

goalData(user, newGoal) ==
  [user_id |-> Str(user),
   title |-> Str(newGoal.title),
   description |-> Str(newGoal.description),
   target_amount |-> OrElse(ParseFloat(newGoal.target_amount), Null),
   target_date |-> OrElse(Str(newGoal.target_date), Null),
   priority |-> Str(newGoal.priority),
   status |-> Undefined]

addGoal(newGoal, db) ==
  /\ page.user \in auth_users
  /\ ~page.loadingProfile
  /\ Len(financial_goals[page.user]) < MaxGoals
  /\ IF Trim(newGoal.title) = ""
       THEN UNCHANGED <<financial_goals, page>>
       ELSE LET res == InsertGoal(financial_goals, page.user,
                                  goalData(page.user, newGoal), db)
            IN /\ financial_goals' = res.rows
               /\ page' = IF Truthy(res.error) THEN page
                          ELSE [page EXCEPT !.goals = <<res.data>> \o @]
  /\ UNCHANGED <<env, auth_users, profiles, credit_info, chat_history, turn,
                 calls, log>>

\* The goal rows an identity sends to the table through the storage API:
\* priority and status named with a listed text, another text or NULL, or
\* not named.
ApiGoals ==
  [user_id : {Str("u1")}, title : {Str("Save more")},
   description : {Undefined}, target_amount : {Undefined},
   target_date : {Undefined},
   priority : {Str("low"), Str("urgent"), Null, Undefined},
   status : {Undefined}]
    \cup
  [user_id : {Str("u1")}, title : {Str("Save more")},
   description : {Undefined}, target_amount : {Undefined},
   target_date : {Undefined},
   priority : {Undefined},
   status : {Str("paused"), Str("done"), Null}]

\* "Users can create their own goals": an insert of the signed-in identity.
CreateGoal(row, db) ==
  /\ page.user \in auth_users
  /\ Len(financial_goals[page.user]) < MaxGoals
  /\ financial_goals' = InsertGoal(financial_goals, page.user, row, db).rows
  /\ UNCHANGED <<env, auth_users, profiles, credit_info, chat_history, turn,
                 calls, log, page>>

SignupMetadata ==
  { [first_name |-> Str("Ana"), last_name |-> Str("Lima")],
    [first_name |-> Null, last_name |-> Null] }

ProfileInit ==
  /\ env = [OPEN_AI_API_KEY |-> Str("sk-test")]
  /\ auth_users = {}
  /\ profiles = {}
  /\ credit_info = {}
  /\ financial_goals = [u \in Users |-> <<>>]
  /\ chat_history = <<>>
  /\ turn = [t \in Turns |-> NewTurn]
  /\ calls = [t \in Turns |-> <<>>]
  /\ log = [t \in Turns |-> <<>>]
  /\ page = NewPage

ProfileNext ==
  \/ \E id \in Users : \E meta \in SignupMetadata : handle_new_user(id, meta)
  \/ \E dbProfile \in DbOutcomes : \E dbCredit \in DbOutcomes :
       \E dbGoals \in DbOutcomes :
         loadProfileData(dbProfile, dbCredit, dbGoals)
  \/ RemountProfile
  \/ \E formData \in ProfileForms : \E db \in DbOutcomes :
       updateProfile(formData, db)
  \/ \E formData \in CreditForms : \E db \in DbOutcomes :
       updateCreditInfo(formData, db)

SpecProfile == ProfileInit /\ [][ProfileNext]_vars

\* The goals of the session's identity: the page's form and the storage API.
GoalsNext ==
  \/ \E id \in Users : \E meta \in SignupMetadata : handle_new_user(id, meta)
  \/ \E dbProfile \in DbOutcomes : \E dbCredit \in DbOutcomes :
       \E dbGoals \in DbOutcomes :
         loadProfileData(dbProfile, dbCredit, dbGoals)
  \/ RemountProfile
  \/ \E newGoal \in GoalForms : \E db \in DbOutcomes : addGoal(newGoal, db)
  \/ \E row \in ApiGoals : \E db \in DbOutcomes : CreateGoal(row, db)

SpecGoals == ProfileInit /\ [][GoalsNext]_vars

(***************************************************************************)
(* C17. After any sequence of updateProfile and updateCreditInfo calls     *)
(* and of signups, every identity has at most one profiles row and at      *)
(* most one credit_info row, and the row of the session's identity holds   *)
(* what the session last wrote with success (or loaded): a failed write    *)
(* leaves the row as it was.                                               *)
(***************************************************************************)
C17_OneRowLatestWrite ==
  /\ \A id \in Users :
       /\ Cardinality(RowsFor(profiles, id)) <= 1
       /\ Cardinality(RowsFor(credit_info, id)) <= 1
       /\ RowsFor(profiles, id) # {} => id \in auth_users
  /\ page.profile # Null => RowsFor(profiles, page.user) = {page.profile.f}
  /\ page.creditInfo # Null
     => RowsFor(credit_info, page.user) = {page.creditInfo.f}

C17_Witness ==
  /\ auth_users = Users
  /\ RowsFor(profiles, "u1")
       = {profileData("u1", [firstName |-> "", lastName |-> "Lima",
                             age |-> "0"])}
  /\ RowsFor(credit_info, "u1")
       = {[user_id |-> Str("u1"), credit_score |-> Null, total_debt |-> Null,
           late_payments |-> Num(0), credit_utilization |-> Num(30)]}
  /\ page.profile # Null
  /\ Get(page.profile, "age") = Null
  /\ page.creditInfo # Null

(***************************************************************************)
(* C18. Creating a goal whose priority is not one of high, medium, low or  *)
(* whose status is not one of active, completed, paused is rejected at     *)
(* the write boundary, nothing being stored and no default substituted,    *)
(* so that every stored goal has priority and status inside the closed     *)
(* enumerations. Violated by an insert that names priority or status as    *)
(* NULL: the CHECK constraints pass NULL and the row is stored.            *)
(***************************************************************************)
StoredGoals ==
  UNION {{financial_goals[id][i] : i \in DOMAIN financial_goals[id]}
         : id \in Users}

C18_StoredGoalsInsideEnumerations ==
  \A goal \in StoredGoals :
    /\ goal.priority \in {Str(p) : p \in GoalPriorities}
    /\ goal.status \in {Str(s) : s \in GoalStatuses}

\* What the write boundary does enforce: a text outside the enumeration is
\* never stored, and the goals added through the page are inside them.
C18_ListedTextOrNull ==
  /\ \A goal \in StoredGoals :
       /\ CheckIn(goal.priority, GoalPriorities)
       /\ CheckIn(goal.status, GoalStatuses)
  /\ \A i \in DOMAIN page.goals :
       page.goals[i].f.title # Str("Save more")
       => /\ page.goals[i].f.priority = Str("high")
          /\ page.goals[i].f.status = Str("active")

C18_NullPriorityStored ==
  \E goal \in StoredGoals :
    /\ goal.priority = Null
    /\ GoalEntry(Obj(goal), 0)[3] = "   Priority: medium"

(***************************************************************************)
(* C21. In the state reads a "not found" result (PGRST116) of the profile  *)
(* read or of the credit read is a normal absent outcome and is not logged *)
(* as an error, while a storage failure of either read is logged as an     *)
(* error and the record is then treated as absent.                         *)
(***************************************************************************)
ErrorLines(t) ==
  {log[t][i] : i \in {j \in DOMAIN log[t] : log[t][j].level = "error"}}

\* The read's outcome is absent: no record is handed to synthesis.
ProfileAbsent(t) == ~Truthy(turn[t].profile)
CreditAbsent(t) == ~Truthy(turn[t].creditInfo)

C21_NotFoundIsNotAnError ==
  \A t \in Turns :
    /\ turn[t].profileError = NotFound
       => /\ LogError("Profile error:", NotFound) \notin ErrorLines(t)
          /\ ProfileAbsent(t)
    /\ turn[t].creditError = NotFound
       => /\ LogError("Credit info error:", NotFound) \notin ErrorLines(t)
          /\ CreditAbsent(t)
    /\ turn[t].profileError = StorageFailure
       => /\ LogError("Profile error:", StorageFailure) \in ErrorLines(t)
          /\ ProfileAbsent(t)
    /\ turn[t].creditError = StorageFailure
       => /\ LogError("Credit info error:", StorageFailure) \in ErrorLines(t)
          /\ CreditAbsent(t)

\* What holds of the two reads: the credit read as stated, the profile read
\* logging every error it gets, "not found" included.
C21_CreditReadOnly ==
  \A t \in Turns :
    /\ turn[t].creditError = NotFound
       => /\ LogError("Credit info error:", NotFound) \notin ErrorLines(t)
          /\ CreditAbsent(t)
    /\ turn[t].creditError = StorageFailure
       => /\ LogError("Credit info error:", StorageFailure) \in ErrorLines(t)
          /\ CreditAbsent(t)
    /\ Truthy(turn[t].profileError)
       => /\ LogError("Profile error:", turn[t].profileError) \in ErrorLines(t)
          /\ ProfileAbsent(t)

\* A user without a profile row and without a credit row: the profile read
\* is logged as an error, the credit read is not, and the turn succeeds.
C21_ProfileNotFoundLogged ==
  \E t \in Turns :
    /\ Done(t)
    /\ RowsFor(profiles, turn[t].req.token) = {}
    /\ turn[t].profileError = NotFound
    /\ turn[t].creditError = NotFound
    /\ LogError("Profile error:", NotFound) \in ErrorLines(t)
    /\ LogError("Credit info error:", NotFound) \notin ErrorLines(t)
    /\ turn[t].out.status = 200

(***************************************************************************)
(* The turn under the assumption that every external call returns: a step  *)
(* of the handler that can be taken is eventually taken.                   *)
(***************************************************************************)
HandlerStep(t) ==
  \/ Preflight(t)
  \/ Configure(t)
  \/ \E res \in AllAuthResults : GetUser(t, res)
  \/ \E db \in DbOutcomes : ReadProfile(t, db)
  \/ \E db \in DbOutcomes : ReadCredit(t, db)
  \/ \E db \in DbOutcomes : ReadGoals(t, db)
  \/ ParseBody(t)
  \/ Synthesize(t)
  \/ \E resp \in ProviderResponses : Fetch(t, resp)
  \/ CheckStatus(t)
  \/ ExtractReply(t)
  \/ \E db \in DbOutcomes : SaveUserMessage(t, db)
  \/ \E db \in DbOutcomes : SaveAIMessage(t, db)
  \/ Respond(t)

SpecReturning ==
  Init /\ [][Next]_vars /\ \A t \in Turns : WF_vars(HandlerStep(t))

(***************************************************************************)
(* C22. A turn whose external calls all return, with success or failure,   *)
(* eventually produces exactly one response, the success response or the   *)
(* failure response; its steps occur in the order authenticate, read       *)
(* state, synthesize, invoke, record, respond, and no step is repeated.    *)
(***************************************************************************)
StepOrder ==
  << "idle", "Start", "Authenticating", "ReadingProfile", "ReadingCredit",
     "ReadingGoals", "ParsingBody", "Synthesizing", "Invoking",
     "CheckingStatus", "Extracting", "RecordingUser", "RecordingAI",
     "Responding", "Done" >>

Rank(pc) == CHOOSE i \in DOMAIN StepOrder : StepOrder[i] = pc

\* The external calls of a turn that runs to its end, in order.
CallOrder ==
  << "auth.getUser", "profiles", "credit_info", "financial_goals", "fetch",
     "chat_history", "chat_history" >>

CallKind(c) == IF c.api \in {"select", "insert"} THEN c.table ELSE c.api

CallsInOrder(t) ==
  /\ Len(calls[t]) <= Len(CallOrder)
  /\ \A i \in DOMAIN calls[t] : CallKind(calls[t][i]) = CallOrder[i]

\* The one response of a finished turn: none before the end, and at the end
\* the success response of a turn that threw nothing or the failure
\* response of a turn that threw (the preflight has its own response).
OneResponse(t) ==
  /\ Done(t) <=> turn[t].out # NoResponse
  /\ (Done(t) /\ turn[t].req.method # "OPTIONS")
     => \/ /\ turn[t].failedAt = ""
           /\ turn[t].out = SuccessResponse(turn[t].aiResponse)
           /\ Len(calls[t]) = Len(CallOrder)
        \/ /\ turn[t].failedAt # ""
           /\ turn[t].out.status = 500
           /\ Truthy(Get(turn[t].out.body, "error"))

C22_LinearAndTerminating ==
  /\ [][\A t \in Turns :
          turn'[t] # turn[t] => Rank(turn'[t].pc) > Rank(turn[t].pc)]_vars
  /\ [](\A t \in Turns : CallsInOrder(t) /\ OneResponse(t))
  /\ \A t \in Turns : (turn[t].pc = "Start") ~> Done(t)

C22_Witness ==
  \E t \in Turns :
    /\ Done(t)
    /\ turn[t].failedAt = ""
    /\ turn[t].req.method = "POST"
    /\ Len(calls[t]) = Len(CallOrder)
    /\ turn[t].saveUserError = StorageFailure
    /\ turn[t].saveAIError = StorageFailure
    /\ turn[t].out.status = 200

(***************************************************************************)
(* C23. After any sequence of turns driven through sendMessage and the     *)
(* function, every assistant-authored row of chat_history holds a text     *)
(* extracted from a completion-provider response: no assistant row is      *)
(* written for a turn whose provider call failed.                          *)
(***************************************************************************)
\* The texts the provider's responses carry as replies.
ProviderTexts ==
  {ReadReply(r.json).value.v : r \in {x \in ChatResponses : x.ok}}

AssistantRows ==
  SelectSeq(chat_history, LAMBDA r : ~r.is_user_message)

C23_AssistantRowsFromProvider ==
  \A i \in DOMAIN AssistantRows : AssistantRows[i].message \in ProviderTexts

\* What holds: an assistant row is a provider reply or the page's stock
\* text, and the function itself never stores anything but a reply.
C23_ProviderOrFallback ==
  /\ \A i \in DOMAIN AssistantRows :
       AssistantRows[i].message \in ProviderTexts \cup {FallbackText}
  /\ \A t \in Turns :
       \A i \in DOMAIN calls[t] :
         (calls[t][i].api = "insert" /\ ~calls[t][i].row.is_user_message)
           => /\ calls[t][i].row.message.k = "str"
              /\ calls[t][i].row.message.v \in ProviderTexts

\* The provider answered 429, the function answered 500, and the page has
\* stored its stock text as the assistant's row.
C23_FallbackStored ==
  /\ Sending = {}
  /\ ~page.loading
  /\ Len(AssistantRows) = 1
  /\ AssistantRows[1].message = FallbackText
  /\ AssistantRows[1].user_id = page.user

(***************************************************************************)
(* The Chat page with a storage engine that serves every call: each        *)
(* insert and each history load succeeds; the provider answers or refuses. *)
(***************************************************************************)
ServedNext ==
  \/ loadChatHistory("ok")
  \/ Remount
  \/ \E text \in Inputs : sendMessage(text)
  \/ \E t \in Turns :
       \/ sendMessageSave(t, "ok")
       \/ sendMessageUnreached(t)
       \/ sendMessageFallback(t, "ok")
       \/ sendMessageInvoke(t)
       \/ sendMessageResult(t)
       \/ Configure(t)
       \/ /\ turn[t].pc = "Authenticating"
          /\ GetUser(t, [user |-> Obj([id |-> Str(turn[t].req.token)]),
                         error |-> Null])
       \/ ReadProfile(t, "ok")
       \/ ReadCredit(t, "ok")
       \/ ReadGoals(t, "ok")
       \/ ParseBody(t)
       \/ Synthesize(t)
       \/ \E resp \in ChatResponses : Fetch(t, resp)
       \/ CheckStatus(t)
       \/ ExtractReply(t)
       \/ SaveUserMessage(t, "ok")
       \/ SaveAIMessage(t, "ok")
       \/ Respond(t)

\* The conversations found when the session starts: none, another
\* identity's, or the identity's own earlier exchange.
ServedHistories ==
  ChatHistories
    \cup { InitHistory,
           <<ChatRow("u1", "earlier question", TRUE, 1),
             ChatRow("u1", "earlier answer", FALSE, 2)>> }

ServedInit ==
  /\ env = [OPEN_AI_API_KEY |-> Str("sk-test")]
  /\ auth_users = Users
  /\ profiles = RowsOf("u1", FullProfile)
  /\ credit_info = RowsOf("u1", FullCredit)
  /\ financial_goals = [u \in Users |-> <<>>]
  /\ chat_history \in ServedHistories
  /\ turn = [t \in Turns |-> NewTurn]
  /\ calls = [t \in Turns |-> <<>>]
  /\ log = [t \in Turns |-> <<>>]
  /\ page = NewPage

SpecChatServed == ServedInit /\ [][ServedNext]_vars

(***************************************************************************)
(* C24. For a turn started by sendMessage in which the function succeeds   *)
(* and every insert succeeds, chat_history gains exactly one user-authored *)
(* row carrying the sent message and exactly one assistant-authored row,   *)
(* so a later loadChatHistory returns the message sequence the page        *)
(* displayed during the turn.                                              *)
(***************************************************************************)
\* What loadChatHistory would put on the page now.
Loadable ==
  LET data == SelectChatHistory(chat_history, page.user, "ok").data
  IN [i \in 1..Len(data) |->
        ChatMessage(Str(data[i].message), data[i].is_user_message)]

Settled == Sending = {} /\ ~page.loadingHistory /\ ~page.loading

C24_HistoryMatchesDisplay == Settled => Loadable = page.messages

\* A served turn: the page shows the message and the reply, the table holds
\* the message twice (the page's row and the function's row) and the reply.
C24_UserRowTwice ==
  /\ Settled
  /\ page.messages = << ChatMessage(Str("How do I build credit?"), TRUE),
                        ChatMessage(Str("Save 500 a month."), FALSE) >>
  /\ Loadable = << ChatMessage(Str("How do I build credit?"), TRUE),
                   ChatMessage(Str("How do I build credit?"), TRUE),
                   ChatMessage(Str("Save 500 a month."), FALSE) >>

\* What holds: the assistant's side of the display is the assistant's side
\* of the loadable history, and the display never shows more than is stored.
C24_AssistantRowOnce ==
  Settled
    => /\ SelectSeq(Loadable, LAMBDA m : ~m.is_user_message)
            = SelectSeq(page.messages, LAMBDA m : ~m.is_user_message)
       /\ Len(Loadable) >= Len(page.messages)

(***************************************************************************)
(* The Chat page with room for two pending activations of sendMessage and  *)
(* two invocations of the function: send events arrive at any time after   *)
(* the history load, also while a send is in progress.                     *)
(***************************************************************************)
SendsInit ==
  /\ env = [OPEN_AI_API_KEY |-> Str("sk-test")]
  /\ auth_users = Users
  /\ profiles = RowsOf("u1", FullProfile)
  /\ credit_info = RowsOf("u1", FullCredit)
  /\ financial_goals = [u \in Users |-> <<>>]
  /\ chat_history \in ChatHistories
  /\ turn = [t \in Sends |-> NewTurn]
  /\ calls = [t \in Sends |-> <<>>]
  /\ log = [t \in Sends |-> <<>>]
  /\ page = NewPage

SendsNext ==
  \/ \E db \in DbOutcomes : loadChatHistory(db)
  \/ Remount
  \/ \E text \in Inputs : sendMessage(text)
  \/ \E t \in Sends :
       \/ \E db \in DbOutcomes : sendMessageSave(t, db)
       \/ sendMessageUnreached(t)
       \/ \E db \in DbOutcomes : sendMessageFallback(t, db)
       \/ sendMessageInvoke(t)
       \/ sendMessageResult(t)
       \/ Configure(t)
       \/ /\ turn[t].pc = "Authenticating"
          /\ GetUser(t, [user |-> Obj([id |-> Str(turn[t].req.token)]),
                         error |-> Null])
       \/ ReadProfile(t, "ok")
       \/ ReadCredit(t, "ok")
       \/ ReadGoals(t, "ok")
       \/ ParseBody(t)
       \/ Synthesize(t)
       \/ \E resp \in ChatResponses : Fetch(t, resp)
       \/ CheckStatus(t)
       \/ ExtractReply(t)
       \/ \E db \in DbOutcomes : SaveUserMessage(t, db)
       \/ \E db \in DbOutcomes : SaveAIMessage(t, db)
       \/ Respond(t)

SpecSends == SendsInit /\ [][SendsNext]_vars

(***************************************************************************)
(* C25. sendMessage is single-flight: at most one invocation issued by the *)
(* page is in flight at any time; a call made while a send is in progress  *)
(* or with an empty or whitespace-only input issues no insert and no       *)
(* invocation; and each accepted message is submitted exactly once.        *)
(***************************************************************************)
\* The invocations of the function that have been issued and not consumed.
InFlight == {t \in DOMAIN turn : turn[t].pc # "idle"}

UserShown(messages) == SelectSeq(messages, LAMBDA m : m.is_user_message)

\* The path of one activation of sendMessage.
SendOrder ==
  { <<"idle", "SavingUser">>, <<"SavingUser", "Invoking">>,
    <<"Invoking", "Awaiting">>, <<"Invoking", "SavingFallback">>,
    <<"Awaiting", "idle">>, <<"Awaiting", "SavingFallback">>,
    <<"SavingFallback", "idle">> }

C25_SingleFlight ==
  /\ [](/\ Cardinality(Sending) <= 1
        /\ Cardinality(InFlight) <= 1
        /\ page.loading <=> Sending # {}
        /\ \A s \in Sending :
             /\ page.userMessage[s] # ""
             /\ Trim(page.userMessage[s]) = page.userMessage[s]
        /\ \A t \in InFlight :
             /\ page.pc[t] = "Awaiting"
             /\ turn[t].req.body = Obj([message |-> Str(page.userMessage[t])]))
  /\ [][/\ page.loading
           => UserShown(page'.messages) = UserShown(page.messages)
        /\ (/\ ~page.loadingHistory
            /\ Len(UserShown(page'.messages)) > Len(UserShown(page.messages)))
           => /\ ~page.loading
              /\ page'.loading
              /\ \E s \in Sends :
                   /\ page.pc[s] = "idle"
                   /\ page'.pc[s] = "SavingUser"
                   /\ page'.messages
                        = Append(page.messages,
                                 ChatMessage(Str(page'.userMessage[s]), TRUE))
        /\ \A s \in Sends :
             /\ page'.pc[s] # page.pc[s]
                => <<page.pc[s], page'.pc[s]>> \in SendOrder
             /\ page.pc[s] # "idle"
                => page'.userMessage[s] = page.userMessage[s]
             /\ (turn[s].pc = "idle" /\ turn'[s].pc # "idle")
                => page.pc[s] = "Invoking" /\ page'.pc[s] = "Awaiting"
        /\ chat_history' # chat_history
           => \E s \in Sending :
                \/ page.pc[s] \in {"SavingUser", "SavingFallback"}
                \/ turn[s].pc \in {"RecordingUser", "RecordingAI"}]_vars

\* A send is in progress, its invocation waiting for the provider, and the
\* page has room for another message: a further send event is refused.
C25_Witness ==
  /\ page.loading
  /\ Sending = {"t1"}
  /\ InFlight = {"t1"}
  /\ turn["t1"].pc = "Invoking"
  /\ page.userMessage["t1"] = "How do I build credit?"
  /\ Len(chat_history) + 3 <= MaxRows
  /\ Len(page.messages) + 2 <= MaxRows

(***************************************************************************)
(* C26. Context synthesis renders every non-null numeric field with its    *)
(* stored value, the value 0 included: age, credit score, total debt,      *)
(* utilization and a goal's target amount show the stored number, and the  *)
(* "Not provided" fallback or the omission of the "(Target: $amount)"      *)
(* suffix occurs only when the field is null or absent. Violated by a      *)
(* stored 0 in any of the five fields.                                     *)
(***************************************************************************)
AgeLine(t) == turn[t].systemPrompt[Len(Preamble) + 2]

\* The line of a numeric field: its label, the value when `shown`, the
\* fallback text otherwise.
NumericLine(label, value, shown, unit) ==
  label \o (IF shown THEN Render(value) ELSE "Not provided") \o unit

\* The numeric lines of a synthesized text, a field being shown when it is
\* not in `absent`.
NumericLinesShow(t, absent) ==
  /\ ~Nullish(turn[t].profile)
     => AgeLine(t)
          = NumericLine("- Age: ", Get(turn[t].profile, "age"),
                        Get(turn[t].profile, "age") \notin absent, "")
  /\ ~Nullish(turn[t].creditInfo)
     => LET credit == turn[t].creditInfo
        IN /\ CreditLines(t)[3]
                = NumericLine("- Credit Score: ", Get(credit, "credit_score"),
                              Get(credit, "credit_score") \notin absent, "")
           /\ CreditLines(t)[4]
                = NumericLine("- Total Debt: $", Get(credit, "total_debt"),
                              Get(credit, "total_debt") \notin absent, "")
           /\ CreditLines(t)[6]
                = NumericLine("- Credit Utilization: ",
                              Get(credit, "credit_utilization"),
                              Get(credit, "credit_utilization") \notin absent,
                              "%")
  /\ GoalsListed(t)
     => \A i \in 1..Len(turn[t].goals.a) :
          LET amount == Get(turn[t].goals.a[i], "target_amount")
              suffix == " (Target: $" \o Render(amount) \o ")"
              from == Len(ToString(i) \o ". "
                            \o Render(Get(turn[t].goals.a[i], "title")))
              rest == SubSeq(Headings(t)[i], from + 1, Len(Headings(t)[i]))
          IN IF amount \notin absent
               THEN StartsWith(rest, suffix)
               ELSE ~StartsWith(rest, " (Target: $")

C26_ZeroRenderedAsStored ==
  \A t \in Turns : Synthesized(t) => NumericLinesShow(t, {Null})

\* What holds: the stored number is shown unless it is null or 0.
C26_ZeroRenderedAsAbsent ==
  \A t \in Turns : Synthesized(t) => NumericLinesShow(t, {Null, Num(0)})

\* A credit row with score, debt and utilization all stored as 0.
C26_ZeroCreditNotProvided ==
  \E t \in Turns :
    /\ Synthesized(t)
    /\ turn[t].creditInfo
         = Obj(WithUser("u1", [credit_score |-> Num(0), total_debt |-> Num(0),
                               late_payments |-> Num(0),
                               credit_utilization |-> Num(0)]))
    /\ CreditLines(t)
         = << "", "Credit Information:", "- Credit Score: Not provided",
              "- Total Debt: $Not provided", "- Late Payments: 0",
              "- Credit Utilization: Not provided%" >>

====
